---- MODULE Spec2Model ----
(***************************************************************************)
(* PaperScout: the paper library (saved_papers), the summary cache         *)
(* (paper_summaries), the derived libraryPreview and the five tool         *)
(* operations, with the two-phase confirmation of removeSavedPaper.        *)
(*                                                                         *)
(* Strings that the code takes apart (arXiv ids, URLs, cache keys) are     *)
(* sequences of one-character strings; opaque strings (titles, tags,       *)
(* error messages) are TLA+ strings.                                       *)
(***************************************************************************)
EXTENDS Integers, Sequences, FiniteSets, TLC

(***************************************************************************)
(* Character-level helpers                                                 *)
(***************************************************************************)
Digits == {"0", "1", "2", "3", "4", "5", "6", "7", "8", "9"}

LineTerminators == {"\n", "\r"}

\* String.prototype.toLowerCase on one character (the /i flag of the URL regex)
ToLowerChar(c) ==
  CASE c = "A" -> "a" [] c = "B" -> "b" [] c = "C" -> "c" [] c = "D" -> "d"
    [] c = "E" -> "e" [] c = "F" -> "f" [] c = "G" -> "g" [] c = "H" -> "h"
    [] c = "I" -> "i" [] c = "J" -> "j" [] c = "K" -> "k" [] c = "L" -> "l"
    [] c = "M" -> "m" [] c = "N" -> "n" [] c = "O" -> "o" [] c = "P" -> "p"
    [] c = "Q" -> "q" [] c = "R" -> "r" [] c = "S" -> "s" [] c = "T" -> "t"
    [] c = "U" -> "u" [] c = "V" -> "v" [] c = "W" -> "w" [] c = "X" -> "x"
    [] c = "Y" -> "y" [] c = "Z" -> "z" [] OTHER -> c

ToLower(s) == [i \in 1..Len(s) |-> ToLowerChar(s[i])]

\* s[from..] (1-based), empty when from > Len(s)
Drop(s, n) == SubSeq(s, n + 1, Len(s))

Take(s, n) == SubSeq(s, 1, n)

StartsWithAt(s, i, lit) ==
  /\ i + Len(lit) - 1 <= Len(s)
  /\ \A k \in 1..Len(lit) : s[i + k - 1] = lit[k]

EndsWith(s, lit) ==
  /\ Len(lit) <= Len(s)
  /\ \A k \in 1..Len(lit) : s[Len(s) - Len(lit) + k] = lit[k]

\* String.prototype.includes
Includes(s, lit) == \E i \in 1..(Len(s) + 1) : StartsWithAt(s, i, lit)

AllDigits(s) == \A k \in 1..Len(s) : s[k] \in Digits

NoLineTerminator(s) == \A k \in 1..Len(s) : s[k] \notin LineTerminators

\* Number.parseInt(str, 10) of a non-empty digit string
DigitValue(c) ==
  CASE c = "0" -> 0 [] c = "1" -> 1 [] c = "2" -> 2 [] c = "3" -> 3
    [] c = "4" -> 4 [] c = "5" -> 5 [] c = "6" -> 6 [] c = "7" -> 7
    [] c = "8" -> 8 [] OTHER -> 9

RECURSIVE ParseInt(_)
ParseInt(s) ==
  IF Len(s) = 0 THEN 0
  ELSE 10 * ParseInt(Take(s, Len(s) - 1)) + DigitValue(s[Len(s)])

(***************************************************************************)
(* normalizeArxivId (src/lib/arxiv.ts, listed in README.md)                *)
(***************************************************************************)
ARXIV_ABS == <<"a","r","x","i","v",".","o","r","g","/","a","b","s","/">>

ARXIV_PDF == <<"a","r","x","i","v",".","o","r","g","/","p","d","f","/">>

DOT_PDF == <<".","p","d","f">>

\* /arxiv\.org\/(?:abs|pdf)\/(.+?)(?:\.pdf)?$/i tried at start position i:
\* the literal prefix, then at least one character and no line terminator up
\* to the end of the input.
UrlMatchesAt(s, i) ==
  /\ \/ StartsWithAt(ToLower(s), i, ARXIV_ABS)
     \/ StartsWithAt(ToLower(s), i, ARXIV_PDF)
  /\ Len(s) >= i + Len(ARXIV_ABS)
  /\ NoLineTerminator(Drop(s, i + Len(ARXIV_ABS) - 1))

\* the URL regex without its (?:\.pdf)? group
UrlCaptureKeepingPdf(rest) == rest

\* Capture group 1 of the URL regex: the lazy (.+?) stops as soon as the rest
\* is ".pdf" (any case) or empty; it keeps at least one character.
UrlCapture(rest) ==
  IF Len(rest) > Len(DOT_PDF) /\ EndsWith(ToLower(rest), DOT_PDF)
  THEN Take(rest, Len(rest) - Len(DOT_PDF))
  ELSE rest

\* the capture of the leftmost match among the start positions that match
CaptureAt(idOrUrl, starts) ==
  IF starts = {} THEN idOrUrl
  ELSE UrlCapture(Drop(idOrUrl,
         (CHOOSE m \in starts : \A n \in starts : m <= n) + Len(ARXIV_ABS) - 1))

\* const urlMatch = idOrUrl.match(...); id = urlMatch ? urlMatch[1] : idOrUrl
ExtractIdFromUrl(idOrUrl) ==
  CaptureAt(idOrUrl, {i \in 1..Len(idOrUrl) : UrlMatchesAt(idOrUrl, i)})

\* the version group written (?:v?(\d))?: one trailing digit is split off
VersionSplitsLastDigit(id) ==
  {j \in 2..Len(id) : j = Len(id) /\ id[j] \in Digits}

\* /^(.+?)(?:v(\d+))?$/ : positions j >= 2 with id[j] = "v" followed by one
\* or more digits up to the end.
VersionSplits(id) ==
  {j \in 2..Len(id) : /\ id[j] = "v"
                      /\ j < Len(id)
                      /\ AllDigits(Drop(id, j))}

\* the lazy group 1 ends at the leftmost split; without a split (or without a
\* match at all) the id is returned as it is
SplitVersion(id, splits) ==
  IF Len(id) = 0 \/ ~NoLineTerminator(id) \/ splits = {}
  THEN [canonical |-> id]
  ELSE [canonical |-> Take(id, (CHOOSE m \in splits : \A n \in splits : m <= n) - 1),
        version   |-> ParseInt(Drop(id, CHOOSE m \in splits : \A n \in splits : m <= n)),
        versioned |-> id]

VersionOf(id) == SplitVersion(id, VersionSplits(id))

normalizeArxivId(idOrUrl) == VersionOf(ExtractIdFromUrl(idOrUrl))

(***************************************************************************)
(* Inputs: raw identifiers, tag lists, the upstream feed, storage faults   *)
(***************************************************************************)
BARE1 == <<"2","3","0","1",".","0","1","2","3","4">>

BARE2 == <<"c","s","/","9","9","0","1","0","0","1">>

\* "2301.01234v2"
VERSIONED1 == BARE1 \o <<"v","2">>

\* "https://arxiv.org/pdf/2301.01234v1.pdf"
PDFURL1 == <<"h","t","t","p","s",":","/","/">> \o ARXIV_PDF \o BARE1 \o <<"v","1">> \o DOT_PDF

\* the arxivId arguments the model passes to the tools
RawIds == {BARE1, PDFURL1, BARE2}

\* normalizeArxivId on the identifiers the model meets, computed once
NormalizedIds ==
  LET raws == RawIds \cup {VERSIONED1}
      once == [x \in raws |-> normalizeArxivId(x)]
      all  == raws \cup {once[x].canonical : x \in raws}
  IN [x \in all |-> normalizeArxivId(x)]

Normalize(idOrUrl) ==
  IF idOrUrl \in DOMAIN NormalizedIds THEN NormalizedIds[idOrUrl]
  ELSE normalizeArxivId(idOrUrl)

CanonicalIds == {Normalize(raw).canonical : raw \in RawIds}

\* the tags arguments of savePaper (tags = [] when omitted)
TagInputs == {<<"a", "b">>, <<"b", "c">>}

Absent == "undefined"

\* records the upstream feed can answer with (ArxivPaper as parseEntry builds it)
PAPER1_V1 ==
  [arxivId |-> BARE1, title |-> "Diffusion Models", authors |-> <<"Ho", "Jain">>,
   published |-> "2023-01-03", updated |-> Absent,
   abstract |-> "We study diffusion.", url |-> "http://arxiv.org/abs/2301.01234v1"]

PAPER1_V2 ==
  [arxivId |-> BARE1, title |-> "Diffusion Models, Revisited", authors |-> <<"Ho", "Jain">>,
   published |-> "2023-01-03", updated |-> "2023-02-01",
   abstract |-> "We study diffusion again.", url |-> "http://arxiv.org/abs/2301.01234v2"]

PAPER2 ==
  [arxivId |-> BARE2, title |-> "Old Style Paper", authors |-> <<"Knuth">>,
   published |-> "1999-01-01", updated |-> "1999-01-01",
   abstract |-> "An old abstract.", url |-> "http://arxiv.org/abs/cs/9901001v1"]

\* a paper whose <title> holds white space only: parseEntry keeps the entry
\* and cleans the title to the empty string
UNTITLED1 == <<"2", "3", "0", "1", ".", "0", "9", "9", "9", "9">>

PAPER_UNTITLED ==
  [arxivId |-> UNTITLED1, title |-> "", authors |-> <<"Ho">>,
   published |-> "2023-01-03", updated |-> Absent,
   abstract |-> "We study nothing.", url |-> "http://arxiv.org/abs/2301.09999v1"]

\* what the feed holds for id_list=<canonical>; the record may be revised upstream
UpstreamPapers(canonical) ==
  IF canonical = BARE1 THEN {PAPER1_V1, PAPER1_V2}
  ELSE IF canonical = BARE2 THEN {PAPER2}
  ELSE IF canonical = UNTITLED1 THEN {PAPER_UNTITLED}
  ELSE {}

HttpStatuses == {503}

\* messages of the errors the storage layer can raise
MSG_UNIQUE == <<"U","N","I","Q","U","E"," ","c","o","n","s","t","r","a","i","n","t"," ","f","a","i","l","e","d",":"," ","s","a","v","e","d","_","p","a","p","e","r","s",".","a","r","x","i","v","_","i","d">>

MSG_LOCKED == <<"d","a","t","a","b","a","s","e"," ","i","s"," ","l","o","c","k","e","d">>

MSG_QUOTA == <<"E","x","c","e","e","d","e","d"," ","s","t","o","r","a","g","e"," ","q","u","o","t","a">>

MSG_OTHER == <<"N","e","t","w","o","r","k"," ","c","o","n","n","e","c","t","i","o","n"," ","l","o","s","t">>

MSG_FOREIGN_KEY == <<"F","O","R","E","I","G","N"," ","K","E","Y"," ","c","o","n","s","t","r","a","i","n","t"," ","f","a","i","l","e","d">>

NoFault == <<>>

\* what one SQL statement can do besides succeed
SqlFaults == {MSG_LOCKED, MSG_OTHER}

InsertFaults == SqlFaults \cup {MSG_QUOTA}

DeleteFaults == SqlFaults \cup {MSG_FOREIGN_KEY}

MaxClock == 1

MaxCalls == 2

\* the tool calls the language model makes in one run of the model
MaxToolCalls == 3

Slots == 1..MaxCalls

(***************************************************************************)
(* State                                                                   *)
(***************************************************************************)
VARIABLES
  started,          \* onStart has run in this incarnation of the agent
  saved_papers,     \* table saved_papers: a set of rows
  paper_summaries,  \* table paper_summaries: a set of rows
  state,            \* agent.state: [preferences, libraryPreview]
  calls,            \* the tool executions in flight, one per slot
  removeReq,        \* the confirmation-gated removeSavedPaper request
  lastResult,       \* what the tool execution that ended last returned
  now,              \* Date.now()
  toolCalls,        \* the number of tool calls made so far
  saveHistory       \* per canonical id: the successful saves since the last remove

vars == <<started, saved_papers, paper_summaries, state, calls, removeReq,
          lastResult, now, toolCalls, saveHistory>>

(***************************************************************************)
(* Helpers of tools.ts                                                     *)
(***************************************************************************)
\* JSON.stringify of a string array: the text is kept as a tagged value
JsonStringify(value) == [json |-> value]

\* safeJsonParse: JSON.parse(json || JSON.stringify(fallback)), fallback on error
safeJsonParse(json, fallback) ==
  IF "json" \in DOMAIN json THEN json.json ELSE fallback

\* no thrown Error is taken for a database error
isDatabaseErrorNever(message) == FALSE

\* isDatabaseError on the message of a thrown Error
isDatabaseError(message) ==
  LET msg == ToLower(message)
  IN \/ Includes(msg, <<"s","q","l">>)
     \/ Includes(msg, <<"d","a","t","a","b","a","s","e">>)
     \/ Includes(msg, <<"s","q","l","i","t","e">>)
     \/ Includes(msg, <<"c","o","n","s","t","r","a","i","n","t">>)

\* the tests the catch blocks make on error.message, computed once per message
ErrorTests ==
  [m \in InsertFaults \cup DeleteFaults \cup {MSG_UNIQUE} |->
     [database   |-> isDatabaseError(m),
      unique     |-> Includes(m, <<"U","N","I","Q","U","E">>),
      quota      |-> Includes(ToLower(m), <<"q","u","o","t","a">>),
      constraint |-> Includes(m, <<"c","o","n","s","t","r","a","i","n","t">>)]]

EmptyPartial == [x \in {} |-> x]

\* createSavePaperError: { arxivId, title: "", tags: [], savedAt: 0,
\*                         wasAlreadySaved: false, ...partial, error }
createSavePaperError(arxivId, error, partial) ==
  [error |-> error] @@ partial @@
  [arxivId |-> arxivId, title |-> "", tags |-> <<>>, savedAt |-> 0,
   wasAlreadySaved |-> FALSE]

\* createRemoveError: { arxivId, title, success: false, error }
\* the error result with success left true
createRemoveErrorReportingSuccess(arxivId, error, title) ==
  [arxivId |-> arxivId, title |-> title, success |-> TRUE, error |-> error]

createRemoveError(arxivId, error, title) ==
  [arxivId |-> arxivId, title |-> title, success |-> FALSE, error |-> error]

\* Array.from(new Set(array)): first occurrences, in order
RECURSIVE Dedup(_)
Dedup(array) ==
  IF Len(array) = 0 THEN <<>>
  ELSE LET init == Dedup(Take(array, Len(array) - 1))
           last == array[Len(array)]
       IN IF \E i \in 1..Len(init) : init[i] = last THEN init
          ELSE Append(init, last)

Range(seq) == {seq[i] : i \in 1..Len(seq)}

(***************************************************************************)
(* The storage engine: the statements the code issues                      *)
(***************************************************************************)
\* SELECT ... FROM saved_papers WHERE arxiv_id = ${canonicalId}
SelectSavedPaper(table, canonicalId) == {r \in table : r.arxiv_id = canonicalId}

\* the UPDATE without its WHERE clause
UpdateTagsEverywhere(table, canonicalId, tags_json) ==
  {[r EXCEPT !.tags_json = tags_json] : r \in table}

\* UPDATE saved_papers SET tags_json = ... WHERE arxiv_id = ${canonicalId}
UpdateTags(table, canonicalId, tags_json) ==
  {IF r.arxiv_id = canonicalId THEN [r EXCEPT !.tags_json = tags_json] ELSE r
     : r \in table}

\* a row written from the id alone, before any metadata is known
SavedPaperStubRow(canonicalId, paper, tags, savedAt) ==
  [arxiv_id     |-> canonicalId,
   title        |-> "",
   authors_json |-> JsonStringify(<<>>),
   published    |-> "",
   updated      |-> "",
   abstract     |-> "",
   url          |-> "",
   tags_json    |-> JsonStringify(tags),
   saved_at     |-> savedAt]

\* the VALUES of the INSERT INTO saved_papers
SavedPaperRow(canonicalId, paper, tags, savedAt) ==
  [arxiv_id     |-> canonicalId,
   title        |-> paper.title,
   authors_json |-> JsonStringify(paper.authors),
   published    |-> paper.published,
   updated      |-> IF paper.updated = Absent THEN paper.published ELSE paper.updated,
   abstract     |-> paper.abstract,
   url          |-> paper.url,
   tags_json    |-> JsonStringify(tags),
   saved_at     |-> savedAt]

\* the table declared without PRIMARY KEY: every INSERT adds a row
InsertWithoutPrimaryKey(table, row) ==
  [ok |-> TRUE, message |-> NoFault, table |-> table \cup {row}]

\* INSERT OR REPLACE: the row of the key is overwritten
InsertOrReplaceSavedPaper(table, row) ==
  [ok |-> TRUE, message |-> NoFault,
   table |-> {r \in table : r.arxiv_id # row.arxiv_id} \cup {row}]

\* INSERT INTO saved_papers; arxiv_id is declared TEXT PRIMARY KEY, so a
\* second row for the key is refused with SQLite's UNIQUE error.
InsertSavedPaper(table, row) ==
  IF \E r \in table : r.arxiv_id = row.arxiv_id
  THEN [ok |-> FALSE, message |-> MSG_UNIQUE, table |-> table]
  ELSE [ok |-> TRUE, message |-> NoFault, table |-> table \cup {row}]

\* the DELETE without its WHERE clause
DeleteEverySavedPaper(table, canonicalId) == {}

\* DELETE FROM saved_papers WHERE arxiv_id = ${canonicalId}
DeleteSavedPaper(table, canonicalId) == {r \in table : r.arxiv_id # canonicalId}

\* ORDER BY saved_at DESC: every order of the rows that respects saved_at
\* (rows with equal saved_at come in an order SQL leaves open)
RECURSIVE OrderBySavedAtDesc(_)
OrderBySavedAtDesc(rows) ==
  IF rows = {} THEN {<<>>}
  ELSE UNION {{<<r>> \o rest : rest \in OrderBySavedAtDesc(rows \ {r})}
                : r \in {x \in rows : \A y \in rows : x.saved_at >= y.saved_at}}

PREVIEW_LIMIT == 10

\* the SELECT without its LIMIT clause
LimitNothing(seq, n) == seq

Limit(seq, n) == IF Len(seq) > n THEN Take(seq, n) ELSE seq

(***************************************************************************)
(* updateLibraryPreview                                                    *)
(***************************************************************************)
PreviewItem(row) ==
  [arxivId |-> row.arxiv_id, title |-> row.title, savedAt |-> row.saved_at,
   tags |-> safeJsonParse(row.tags_json, <<>>)]

\* the previews one recompute can produce from a table
LibraryPreviews(table) ==
  {[i \in 1..Len(recent) |-> PreviewItem(recent[i])]
     : recent \in {Limit(o, PREVIEW_LIMIT) : o \in OrderBySavedAtDesc(table)}}

\* setState({ libraryPreview: preview }) over the initial state: the
\* preferences of the session are not carried over
updateLibraryPreviewResettingState(table, st) ==
  {[success |-> TRUE,
    st |-> [preferences |-> [defaultMaxResults |-> 5, recencyDays |-> 3650,
                             categories |-> <<>>],
            libraryPreview |-> preview]]
     : preview \in LibraryPreviews(table)}
  \cup {[success |-> FALSE, st |-> st] : f \in SqlFaults}

\* every outcome of updateLibraryPreview(agent): the SELECT succeeds and the
\* state is replaced keeping the preferences, or it throws and the error is
\* swallowed into { success: false }.
updateLibraryPreview(table, st) ==
  {[success |-> TRUE, st |-> [st EXCEPT !.libraryPreview = preview]]
     : preview \in LibraryPreviews(table)}
  \cup {[success |-> FALSE, st |-> st] : f \in SqlFaults}

(***************************************************************************)
(* The Fetch Client as the tools see it                                    *)
(***************************************************************************)
\* every way fetchArxivPaperById(arxivId) can end: it normalizes the id,
\* issues one request for id_list=<canonical> and returns papers[0] or null,
\* or throws ArxivNetworkError / ArxivHttpError / something unclassified.
fetchArxivPaperById(arxivId) ==
  LET canonical == Normalize(arxivId).canonical
  IN {[kind |-> "ArxivNetworkError"], [kind |-> "Error"], [kind |-> "null"]}
     \cup {[kind |-> "ArxivHttpError", status |-> st] : st \in HttpStatuses}
     \cup {[kind |-> "paper", paper |-> p] : p \in UpstreamPapers(canonical)}

\* getArxivErrorMessage: a message for the two classified errors, otherwise
\* the error is thrown again
getArxivErrorMessage(error) ==
  IF error.kind = "ArxivNetworkError"
  THEN [threw |-> FALSE,
        message |-> <<"Failed to connect to arXiv. Please try again later.">>]
  ELSE IF error.kind = "ArxivHttpError"
  THEN [threw |-> FALSE,
        message |-> <<"arXiv returned an error (HTTP ", error.status,
                      "). Please try again.">>]
  ELSE [threw |-> TRUE, message |-> <<>>]

(***************************************************************************)
(* Tool executions in flight                                               *)
(***************************************************************************)
NoPaper == [null |-> TRUE]

NoResult == [none |-> TRUE]

IdleCall ==
  [op |-> "none", pc |-> "idle", arxivId |-> <<>>, canonicalId |-> <<>>,
   tags |-> <<>>, cacheKey |-> <<>>, paper |-> NoPaper, io |-> <<>>]

Free(slot) == calls[slot].pc = "idle"

\* what a tool execution ended with: a returned result or a thrown error,
\* and the statements and requests it issued with what each answered
Returned(op, arxivId, pc, result, io) ==
  [op |-> op, arxivId |-> arxivId, threw |-> (pc = "thrown"), result |-> result,
   io |-> io]

Thrown == [thrown |-> TRUE]

\* the failure of the preview reported as the failure of the operation
WithPreviewError(result, previewResult, warning) ==
  IF previewResult.success THEN result ELSE [error |-> warning] @@ result

WithWarning(result, previewResult, warning) ==
  IF previewResult.success THEN result ELSE [warning |-> warning] @@ result

(***************************************************************************)
(* savePaper.execute                                                       *)
(***************************************************************************)
\* one way a stretch of an execution can go: where it stops, the table and
\* agent state it leaves, what it returns, and the statements and requests it
\* issued with what each answered (io)
Out(pc, table, st, result, io) ==
  [pc |-> pc, table |-> table, st |-> st, result |-> result, io |-> io]

\* the new tags replace the stored ones instead of joining them
MergeTagsReplacing(existingTags, tags) == Dedup(tags)

\* const mergedTags = Array.from(new Set([...existingTags, ...tags]))
MergeTags(existingTags, tags) == Dedup(existingTags \o tags)

\* merge path: the id is stored; UPDATE of the tags, then the preview
savePaperMerge(table, st, canonicalId, existing, tags) ==
  LET existingTags == safeJsonParse(existing.tags_json, <<>>)
      mergedTags   == MergeTags(existingTags, tags)
      updated      == UpdateTags(table, canonicalId, JsonStringify(mergedTags))
      result       == [arxivId |-> canonicalId, title |-> existing.title,
                       tags |-> mergedTags, savedAt |-> existing.saved_at,
                       wasAlreadySaved |-> TRUE]
  IN {IF ErrorTests[f].database
      THEN Out("done", table, st,
               [arxivId |-> canonicalId, title |-> existing.title,
                tags |-> existingTags, savedAt |-> existing.saved_at,
                wasAlreadySaved |-> TRUE,
                error |-> <<"Failed to update tags in database.">>],
               <<<<"SELECT", NoFault>>, <<"UPDATE", f>>>>)
      ELSE Out("thrown", table, st, Thrown,
               <<<<"SELECT", NoFault>>, <<"UPDATE", f>>>>)
        : f \in SqlFaults}
     \cup
     {Out("done", updated, pv.st,
          WithWarning(result, pv,
            "Paper saved but UI preview may be outdated. Please refresh."),
          <<<<"SELECT", NoFault>>, <<"UPDATE", NoFault>>, <<"PREVIEW", pv.success>>>>)
        : pv \in updateLibraryPreview(updated, st)}

\* the fetch awaited before the existence check is acted on
savePaperStartFetchingFirst(table, st, arxivId, tags) ==
  {Out("fetching", table, st, NoResult, <<<<"SELECT", NoFault>>>>)}

\* from the start of execute to the first await or return
savePaperStart(table, st, arxivId, tags) ==
  LET canonicalId   == Normalize(arxivId).canonical
      existingPaper == SelectSavedPaper(table, canonicalId)
  IN {IF ErrorTests[f].database
      THEN Out("done", table, st,
               createSavePaperError(canonicalId,
                 <<"Database error while checking for existing paper.">>,
                 EmptyPartial),
               <<<<"SELECT", f>>>>)
      ELSE Out("thrown", table, st, Thrown, <<<<"SELECT", f>>>>)
        : f \in SqlFaults}
     \cup
     (IF existingPaper # {}
      THEN savePaperMerge(table, st, canonicalId,
                          CHOOSE r \in existingPaper : TRUE, tags)
      ELSE {Out("fetching", table, st, NoResult, <<<<"SELECT", NoFault>>>>)})

\* the catch block of the INSERT
savePaperInsertError(canonicalId, paper, message) ==
  IF ErrorTests[message].unique
  THEN [pc |-> "done",
        result |-> createSavePaperError(canonicalId,
                     <<"Paper already exists in library (race condition detected).">>,
                     [title |-> paper.title])]
  ELSE IF ErrorTests[message].quota
  THEN [pc |-> "done",
        result |-> createSavePaperError(canonicalId,
                     <<"Storage quota exceeded. Please remove some papers first.">>,
                     [title |-> paper.title])]
  ELSE IF ~ErrorTests[message].database
  THEN [pc |-> "thrown", result |-> Thrown]
  ELSE [pc |-> "done",
        result |-> createSavePaperError(canonicalId,
                     <<"Failed to save paper to database.">>,
                     [title |-> paper.title])]

\* from the return of fetchArxivPaperById to the end of execute
savePaperResume(table, st, canonicalId, tags, fetched, savedAt) ==
  IF fetched.kind \in {"ArxivNetworkError", "ArxivHttpError", "Error"}
  THEN LET m == getArxivErrorMessage(fetched)
       IN {IF m.threw
           THEN Out("thrown", table, st, Thrown, <<<<"FETCH", fetched>>>>)
           ELSE Out("done", table, st,
                    createSavePaperError(canonicalId, m.message, EmptyPartial),
                    <<<<"FETCH", fetched>>>>)}
  ELSE IF fetched.kind = "null"
  THEN {Out("done", table, st,
            createSavePaperError(canonicalId,
              <<"Paper with arXiv ID '", canonicalId,
                "' not found. Please check the ID and try again.">>,
              EmptyPartial),
            <<<<"FETCH", fetched>>>>)}
  ELSE LET paper  == fetched.paper
           insert == InsertSavedPaper(table,
                       SavedPaperRow(canonicalId, paper, tags, savedAt))
           result == [arxivId |-> canonicalId, title |-> paper.title,
                      tags |-> tags, savedAt |-> savedAt,
                      wasAlreadySaved |-> FALSE]
           failed(message) ==
             LET e == savePaperInsertError(canonicalId, paper, message)
             IN Out(e.pc, table, st, e.result,
                    <<<<"FETCH", fetched>>, <<"INSERT", message>>>>)
       IN {failed(f) : f \in InsertFaults}
          \cup
          (IF ~insert.ok
           THEN {failed(insert.message)}
           ELSE {Out("done", insert.table, pv.st,
                     WithWarning(result, pv,
                       "Paper saved but UI preview may be outdated. Please refresh."),
                     <<<<"FETCH", fetched>>, <<"INSERT", NoFault>>,
                       <<"PREVIEW", pv.success>>>>)
                   : pv \in updateLibraryPreview(insert.table, st)})

IsSuccess(result) == "arxivId" \in DOMAIN result /\ "error" \notin DOMAIN result

\* the successful saves of an id since it was last removed
RecordSave(history, out, canonicalId, tags) ==
  IF out.pc = "done" /\ IsSuccess(out.result)
  THEN [history EXCEPT ![canonicalId] =
          [count |-> IF @.count < 2 THEN @.count + 1 ELSE 2,
           tags  |-> @.tags \cup Range(tags)]]
  ELSE history

SavePaperCall(slot, arxivId, tags) ==
  /\ started
  /\ Free(slot)
  /\ toolCalls < MaxToolCalls
  /\ toolCalls' = toolCalls + 1
  /\ \E out \in savePaperStart(saved_papers, state, arxivId, tags) :
       LET canonicalId == Normalize(arxivId).canonical
       IN /\ saved_papers' = out.table
          /\ state' = out.st
          /\ IF out.pc = "fetching"
             THEN /\ calls' = [calls EXCEPT ![slot] =
                       [IdleCall EXCEPT !.op = "savePaper", !.pc = "fetching",
                                        !.arxivId = arxivId,
                                        !.canonicalId = canonicalId,
                                        !.tags = tags, !.io = out.io]]
                  /\ UNCHANGED lastResult
             ELSE /\ lastResult' = Returned("savePaper", arxivId, out.pc,
                                            out.result, out.io)
                  /\ UNCHANGED calls
          /\ saveHistory' = RecordSave(saveHistory, out, canonicalId, tags)
  /\ UNCHANGED <<started, paper_summaries, removeReq, now>>

SavePaperReturn(slot) ==
  /\ calls[slot].op = "savePaper"
  /\ calls[slot].pc = "fetching"
  /\ \E fetched \in fetchArxivPaperById(calls[slot].canonicalId) :
     \E out \in savePaperResume(saved_papers, state, calls[slot].canonicalId,
                                calls[slot].tags, fetched, now) :
       /\ saved_papers' = out.table
       /\ state' = out.st
       /\ calls' = [calls EXCEPT ![slot] = IdleCall]
       /\ lastResult' = Returned("savePaper", calls[slot].arxivId, out.pc,
                                 out.result, calls[slot].io \o out.io)
       /\ saveHistory' = RecordSave(saveHistory, out, calls[slot].canonicalId,
                                    calls[slot].tags)
  /\ UNCHANGED <<started, paper_summaries, removeReq, now, toolCalls>>

(***************************************************************************)
(* removeSavedPaper: the declared tool and executions.removeSavedPaper     *)
(***************************************************************************)
\* the tool declared with an execute function, like the other tools
removeSavedPaperDeclaredWithExecute == TRUE

\* the tool removeSavedPaper is declared with an inputSchema and no execute
removeSavedPaperHasExecute == FALSE

\* executions.removeSavedPaper({ arxivId }); it has no await before its end
executeRemoveSavedPaper(table, st, arxivId) ==
  LET canonicalId == Normalize(arxivId).canonical
      rows        == SelectSavedPaper(table, canonicalId)
      title       == IF rows # {} THEN (CHOOSE r \in rows : TRUE).title ELSE Absent
      deleted     == DeleteSavedPaper(table, canonicalId)
  IN \* the title lookup throws
     {IF ErrorTests[f].database
      THEN Out("done", table, st,
               createRemoveError(canonicalId,
                 <<"Database error while looking up paper. Please try again.">>,
                 Absent),
               <<<<"SELECT", f>>>>)
      ELSE Out("thrown", table, st, Thrown, <<<<"SELECT", f>>>>)
        : f \in SqlFaults}
     \cup
     (IF title = Absent \/ title = ""
      THEN {Out("done", table, st,
                createRemoveError(canonicalId,
                  <<"Paper with arXiv ID '", canonicalId,
                    "' not found in library.">>,
                  Absent),
                <<<<"SELECT", NoFault>>>>)}
      ELSE \* the DELETE throws
           {IF ErrorTests[f].constraint
            THEN Out("done", table, st,
                     createRemoveError(canonicalId,
                       <<"Cannot remove paper due to database constraint violation.">>,
                       title),
                     <<<<"SELECT", NoFault>>, <<"DELETE", f>>>>)
            ELSE IF ~ErrorTests[f].database
            THEN Out("thrown", table, st, Thrown,
                     <<<<"SELECT", NoFault>>, <<"DELETE", f>>>>)
            ELSE Out("done", table, st,
                     createRemoveError(canonicalId,
                       <<"Failed to remove paper from database.">>, title),
                     <<<<"SELECT", NoFault>>, <<"DELETE", f>>>>)
              : f \in DeleteFaults}
           \cup
           {Out("done", deleted, pv.st,
                WithWarning(
                  [arxivId |-> canonicalId, title |-> title, success |-> TRUE], pv,
                  "Paper removed but UI preview may be outdated. Please refresh."),
                <<<<"SELECT", NoFault>>, <<"DELETE", NoFault>>,
                  <<"PREVIEW", pv.success>>>>)
              : pv \in updateLibraryPreview(deleted, st)})

NoRequest == [state |-> "None", arxivId |-> <<>>]

\* the rows of an id are gone: its successful saves start over
ForgetRemoved(history, table) ==
  [c \in DOMAIN history |->
     IF SelectSavedPaper(table, c) = {} THEN [count |-> 0, tags |-> {}]
     ELSE history[c]]

\* one run of executions.removeSavedPaper
RunRemove(arxivId) ==
  \E out \in executeRemoveSavedPaper(saved_papers, state, arxivId) :
    /\ saved_papers' = out.table
    /\ state' = out.st
    /\ removeReq' = [state |-> "Executed", arxivId |-> arxivId]
    /\ lastResult' = Returned("removeSavedPaper", arxivId, out.pc, out.result,
                              out.io)
    /\ saveHistory' = IF out.table = saved_papers THEN saveHistory
                      ELSE ForgetRemoved(saveHistory, out.table)

\* the model calls the tool: a tool without execute only surfaces the request
RemoveToolCall(arxivId) ==
  /\ started
  /\ toolCalls < MaxToolCalls
  /\ toolCalls' = toolCalls + 1
  /\ removeReq.state \in {"None", "Executed", "Aborted"}
  /\ IF removeSavedPaperHasExecute
     THEN RunRemove(arxivId)
     ELSE /\ removeReq' = [state |-> "Proposed", arxivId |-> arxivId]
          /\ UNCHANGED <<saved_papers, state, lastResult, saveHistory>>
  /\ UNCHANGED <<started, paper_summaries, calls, now>>

\* the user answers APPROVAL.YES
UserApprove ==
  /\ removeReq.state = "Proposed"
  /\ removeReq' = [removeReq EXCEPT !.state = "Approved"]
  /\ UNCHANGED <<started, saved_papers, paper_summaries, state, calls,
                 lastResult, now, toolCalls, saveHistory>>

\* the user answers APPROVAL.NO
UserDeny ==
  /\ removeReq.state = "Proposed"
  /\ removeReq' = [removeReq EXCEPT !.state = "Denied"]
  /\ UNCHANGED <<started, saved_papers, paper_summaries, state, calls,
                 lastResult, now, toolCalls, saveHistory>>

\* the request is never answered: cleanupMessages drops the incomplete call
CleanupMessages ==
  /\ removeReq.state = "Proposed"
  /\ removeReq' = NoRequest
  /\ UNCHANGED <<started, saved_papers, paper_summaries, state, calls,
                 lastResult, now, toolCalls, saveHistory>>

\* processToolCalls on an approved request: phase 2
ProcessApproved ==
  /\ removeReq.state = "Approved"
  /\ RunRemove(removeReq.arxivId)
  /\ UNCHANGED <<started, paper_summaries, calls, now, toolCalls>>

\* processToolCalls on a denied request: the tool output becomes an error text
ProcessDenied ==
  /\ removeReq.state = "Denied"
  /\ removeReq' = [removeReq EXCEPT !.state = "Aborted"]
  /\ lastResult' = Returned("removeSavedPaper", removeReq.arxivId, "done",
                            [denied |-> TRUE], <<>>)
  /\ UNCHANGED <<started, saved_papers, paper_summaries, state, calls, now,
                 toolCalls, saveHistory>>

(***************************************************************************)
(* summarizePaper.execute                                                  *)
(***************************************************************************)
SUMMARY_PROMPT_VERSION == <<"v", "1">>

\* `${arxivId}:${SUMMARY_PROMPT_VERSION}` of the arxivId argument as passed
summaryKey(arxivId) == arxivId \o <<":">> \o SUMMARY_PROMPT_VERSION

\* result.text of generateText: the service is not deterministic
SummaryTexts == {"s1", "s2"}

\* the cache write left out
KeepSummaries(table, cacheKey, summaryMd, createdAt) == table

\* INSERT OR REPLACE INTO paper_summaries (arxiv_id, summary_md, created_at);
\* arxiv_id is the PRIMARY KEY, a row of the same key is replaced
InsertOrReplaceSummary(table, cacheKey, summaryMd, createdAt) ==
  {r \in table : r.arxiv_id # cacheKey}
  \cup {[arxiv_id |-> cacheKey, summary_md |-> summaryMd, created_at |-> createdAt]}

\* the lookup by prefix (WHERE arxiv_id LIKE cacheKey || '%')
SelectSummaryByPrefix(table, cacheKey) ==
  {r \in table : /\ Len(r.arxiv_id) >= Len(cacheKey)
                 /\ SubSeq(r.arxiv_id, 1, Len(cacheKey)) = cacheKey}

\* SELECT summary_md FROM paper_summaries WHERE arxiv_id = ${cacheKey}
SelectSummary(table, cacheKey) == {r \in table : r.arxiv_id = cacheKey}

\* from the start of execute to the first await or return: a cache hit
\* returns, a miss or a failed lookup goes on to the fetch
summarizePaperStart(table, arxivId) ==
  LET cacheKey == summaryKey(arxivId)
      cached   == SelectSummary(table, cacheKey)
  IN {[pc |-> "fetching", result |-> NoResult, io |-> <<<<"SELECT", f>>>>]
        : f \in SqlFaults}
     \cup
     (IF cached # {}
      THEN {[pc |-> "done",
             result |-> [arxivId |-> arxivId,
                         summaryMd |-> (CHOOSE r \in cached : TRUE).summary_md,
                         cached |-> TRUE],
             io |-> <<<<"SELECT", NoFault>>>>]}
      ELSE {[pc |-> "fetching", result |-> NoResult,
             io |-> <<<<"SELECT", NoFault>>>>]})

\* from the return of fetchArxivPaperById to the call of generateText
summarizePaperFetched(arxivId, fetched) ==
  LET failure(error) ==
        [arxivId |-> arxivId, summaryMd |-> "", cached |-> FALSE, error |-> error]
  IN IF fetched.kind \in {"ArxivNetworkError", "ArxivHttpError", "Error"}
     THEN LET m == getArxivErrorMessage(fetched)
          IN IF m.threw
             THEN [pc |-> "thrown", result |-> Thrown, io |-> <<<<"FETCH", fetched>>>>]
             ELSE [pc |-> "done", result |-> failure(m.message),
                   io |-> <<<<"FETCH", fetched>>>>]
     ELSE IF fetched.kind = "null"
     THEN [pc |-> "done",
           result |-> failure(<<"Paper with arXiv ID '", arxivId,
                                "' not found. Please check the ID and try again.">>),
           io |-> <<<<"FETCH", fetched>>>>]
     ELSE [pc |-> "generating", result |-> NoResult, io |-> <<<<"FETCH", fetched>>>>]

\* the empty summary of a failed generation written to the cache
summarizePaperGeneratedCachingFailure(table, arxivId, cacheKey, paper, createdAt) ==
  {[table  |-> InsertOrReplaceSummary(table, cacheKey, "", createdAt),
    result |-> [arxivId |-> arxivId, title |-> paper.title, summaryMd |-> "",
                cached |-> FALSE,
                error |-> <<"Failed to generate summary. Please try again.">>],
    io     |-> <<<<"GENERATE", [threw |-> TRUE]>>, <<"INSERT", NoFault>>>>]}
  \cup
  {[table  |-> InsertOrReplaceSummary(table, cacheKey, summaryMd, createdAt),
    result |-> [arxivId |-> arxivId, title |-> paper.title,
                summaryMd |-> summaryMd, cached |-> FALSE],
    io     |-> <<<<"GENERATE", [text |-> summaryMd]>>, <<"INSERT", NoFault>>>>]
     : summaryMd \in SummaryTexts}

\* the cache write outside its try block: its failure fails the operation
summarizePaperGeneratedUnguarded(table, arxivId, cacheKey, paper, createdAt) ==
  {[table  |-> table,
    result |-> [arxivId |-> arxivId, title |-> paper.title, summaryMd |-> "",
                cached |-> FALSE,
                error |-> <<"Failed to generate summary. Please try again.">>],
    io     |-> <<<<"GENERATE", [threw |-> TRUE]>>>>]}
  \cup
  UNION {
    {[table  |-> table,
      result |-> [arxivId |-> arxivId, title |-> paper.title, summaryMd |-> "",
                  cached |-> FALSE, error |-> <<"Failed to cache summary.">>],
      io     |-> <<<<"GENERATE", [text |-> summaryMd]>>, <<"INSERT", f>>>>]
       : f \in SqlFaults}
    \cup
    {[table  |-> InsertOrReplaceSummary(table, cacheKey, summaryMd, createdAt),
      result |-> [arxivId |-> arxivId, title |-> paper.title,
                  summaryMd |-> summaryMd, cached |-> FALSE],
      io     |-> <<<<"GENERATE", [text |-> summaryMd]>>, <<"INSERT", NoFault>>>>]}
    : summaryMd \in SummaryTexts}

\* from the return of generateText to the end of execute: every outcome as
\* [table, result, io]
summarizePaperGenerated(table, arxivId, cacheKey, paper, createdAt) ==
  {[table  |-> table,
    result |-> [arxivId |-> arxivId, title |-> paper.title, summaryMd |-> "",
                cached |-> FALSE,
                error |-> <<"Failed to generate summary. Please try again.">>],
    io     |-> <<<<"GENERATE", [threw |-> TRUE]>>>>]}
  \cup
  UNION {
    LET result == [arxivId |-> arxivId, title |-> paper.title,
                   summaryMd |-> summaryMd, cached |-> FALSE]
    IN \* the cache write throws: logged, the summary is still returned
       {[table |-> table, result |-> result,
         io |-> <<<<"GENERATE", [text |-> summaryMd]>>, <<"INSERT", f>>>>]
          : f \in SqlFaults}
       \cup
       {[table  |-> InsertOrReplaceSummary(table, cacheKey, summaryMd, createdAt),
         result |-> result,
         io     |-> <<<<"GENERATE", [text |-> summaryMd]>>, <<"INSERT", NoFault>>>>]}
    : summaryMd \in SummaryTexts}

SummarizeCall(slot, arxivId) ==
  /\ started
  /\ Free(slot)
  /\ toolCalls < MaxToolCalls
  /\ toolCalls' = toolCalls + 1
  /\ \E out \in summarizePaperStart(paper_summaries, arxivId) :
       IF out.pc = "fetching"
       THEN /\ calls' = [calls EXCEPT ![slot] =
                 [IdleCall EXCEPT !.op = "summarizePaper", !.pc = "fetching",
                                  !.arxivId = arxivId,
                                  !.cacheKey = summaryKey(arxivId),
                                  !.io = out.io]]
            /\ UNCHANGED lastResult
       ELSE /\ lastResult' = Returned("summarizePaper", arxivId, out.pc,
                                      out.result, out.io)
            /\ UNCHANGED calls
  /\ UNCHANGED <<started, saved_papers, paper_summaries, state, removeReq, now,
                 saveHistory>>

SummarizeFetched(slot) ==
  /\ calls[slot].op = "summarizePaper"
  /\ calls[slot].pc = "fetching"
  /\ \E fetched \in fetchArxivPaperById(calls[slot].arxivId) :
       LET out == summarizePaperFetched(calls[slot].arxivId, fetched)
       IN IF out.pc = "generating"
          THEN /\ calls' = [calls EXCEPT ![slot].pc = "generating",
                                         ![slot].paper = fetched.paper,
                                         ![slot].io = @ \o out.io]
               /\ UNCHANGED lastResult
          ELSE /\ calls' = [calls EXCEPT ![slot] = IdleCall]
               /\ lastResult' = Returned("summarizePaper", calls[slot].arxivId,
                                         out.pc, out.result,
                                         calls[slot].io \o out.io)
  /\ UNCHANGED <<started, saved_papers, paper_summaries, state, removeReq, now,
                 toolCalls, saveHistory>>

SummarizeGenerated(slot) ==
  /\ calls[slot].op = "summarizePaper"
  /\ calls[slot].pc = "generating"
  /\ \E out \in summarizePaperGenerated(paper_summaries, calls[slot].arxivId,
                                        calls[slot].cacheKey, calls[slot].paper,
                                        now) :
       /\ paper_summaries' = out.table
       /\ calls' = [calls EXCEPT ![slot] = IdleCall]
       /\ lastResult' = Returned("summarizePaper", calls[slot].arxivId, "done",
                                 out.result, calls[slot].io \o out.io)
  /\ UNCHANGED <<started, saved_papers, state, removeReq, now, toolCalls,
                 saveHistory>>

(***************************************************************************)
(* searchArxiv.execute                                                     *)
(***************************************************************************)
MS_PER_DAY == 24 * 60 * 60 * 1000

\* a time in milliseconds, kept as whole days and the milliseconds of the
\* day: the products of the code exceed the range of the integers here
Time(ms) == [day |-> ms \div MS_PER_DAY, ms |-> ms % MS_PER_DAY]

MinusDays(time, days) == [day |-> time.day - days, ms |-> time.ms]

\* the comparison written > instead of >=
StrictlyAfter(a, b) == a.day > b.day \/ (a.day = b.day /\ a.ms > b.ms)

AtOrAfter(a, b) == a.day > b.day \/ (a.day = b.day /\ a.ms >= b.ms)

\* new Date(published).getTime() on the clock of the model, whose zero is
\* 2023-01-04T00:00:00Z
DateGetTime(published) ==
  IF published = "2023-01-03" THEN [day |-> 0 - 1, ms |-> 0]
  ELSE IF published = "1999-01-01" THEN [day |-> 0 - 8769, ms |-> 0]
  ELSE Time(0)

Queries == {"diffusion"}

\* the feeds the upstream may answer a query with, newest first
SearchFeeds == {<<>>, <<PAPER1_V2>>, <<PAPER1_V2, PAPER2>>}

\* fetchArxivPapers: a transport failure, a non-OK status, a failure while
\* reading the body, or the parsed feed, of at most maxResults entries
fetchArxivPapers(query, options) ==
  {[kind |-> "ArxivNetworkError"], [kind |-> "Error"]}
  \cup {[kind |-> "ArxivHttpError", status |-> st] : st \in HttpStatuses}
  \cup {[kind |-> "papers", papers |-> feed] :
          feed \in {f \in SearchFeeds : Len(f) <= options.maxResults}}

\* maxResults ?? preferences.defaultMaxResults, and so on
EffectiveSearch(st, args) ==
  [query        |-> args.query,
   maxResults   |-> IF "maxResults" \in DOMAIN args THEN args.maxResults
                    ELSE st.preferences.defaultMaxResults,
   recencyDays  |-> IF "recencyDays" \in DOMAIN args THEN args.recencyDays
                    ELSE st.preferences.recencyDays,
   categories   |-> IF "categories" \in DOMAIN args THEN args.categories
                    ELSE st.preferences.categories]

SearchFailure(eff, error) ==
  [papers |-> <<>>, query |-> eff.query, recencyDays |-> eff.recencyDays,
   totalFetched |-> 0, totalAfterFilter |-> 0, error |-> error]

\* the catch block returning a result for every error
searchArxivFetchedMasking(eff, fetched, dateNow) ==
  [pc |-> "done",
   result |-> SearchFailure(eff,
                <<"Failed to connect to arXiv. Please try again later.">>),
   io |-> <<<<"FETCH", fetched>>>>]

\* from the answer of fetchArxivPapers to the end of the execution
searchArxivFetched(eff, fetched, dateNow) ==
  IF fetched.kind = "ArxivNetworkError"
  THEN [pc |-> "done",
        result |-> SearchFailure(eff,
                     <<"Failed to connect to arXiv. Please try again later.">>),
        io |-> <<<<"FETCH", fetched>>>>]
  ELSE IF fetched.kind = "ArxivHttpError"
  THEN [pc |-> "done",
        result |-> SearchFailure(eff,
                     <<"arXiv returned an error (HTTP ", fetched.status,
                       "). Please try again.">>),
        io |-> <<<<"FETCH", fetched>>>>]
  ELSE IF fetched.kind = "Error"
  THEN [pc |-> "thrown", result |-> Thrown, io |-> <<<<"FETCH", fetched>>>>]
  ELSE LET cutoffTime == MinusDays(Time(dateNow), eff.recencyDays)
           filteredPapers ==
             SelectSeq(fetched.papers,
                       LAMBDA paper :
                         AtOrAfter(DateGetTime(paper.published), cutoffTime))
       IN [pc |-> "done",
           result |-> [papers |-> filteredPapers, query |-> eff.query,
                       recencyDays |-> eff.recencyDays,
                       totalFetched |-> Len(fetched.papers),
                       totalAfterFilter |-> Len(filteredPapers)],
           io |-> <<<<"FETCH", fetched>>>>]

SearchArgs ==
  {[query |-> q] @@ m @@ r :
     q \in Queries,
     m \in {EmptyPartial, [maxResults |-> 1]},
     r \in {EmptyPartial, [recencyDays |-> 1]}}

\* the preferences are read and the request is issued
SearchCall(slot, args) ==
  /\ started
  /\ Free(slot)
  /\ toolCalls < MaxToolCalls
  /\ toolCalls' = toolCalls + 1
  /\ calls' = [calls EXCEPT ![slot] =
        [args |-> args, eff |-> EffectiveSearch(state, args)] @@
        [IdleCall EXCEPT !.op = "searchArxiv", !.pc = "fetching"]]
  /\ UNCHANGED <<started, saved_papers, paper_summaries, state, removeReq,
                 lastResult, now, saveHistory>>

\* the request is answered and the execution runs to its end
SearchFetched(slot) ==
  /\ calls[slot].op = "searchArxiv"
  /\ calls[slot].pc = "fetching"
  /\ \E fetched \in fetchArxivPapers(calls[slot].eff.query, calls[slot].eff) :
       LET out == searchArxivFetched(calls[slot].eff, fetched, now)
       IN lastResult' = [args |-> calls[slot].args] @@
                        Returned("searchArxiv", <<>>, out.pc, out.result, out.io)
  /\ calls' = [calls EXCEPT ![slot] = IdleCall]
  /\ UNCHANGED <<started, saved_papers, paper_summaries, state, removeReq, now,
                 toolCalls, saveHistory>>

(***************************************************************************)
(* PaperScout.onStart and the clock                                        *)
(***************************************************************************)
initialState ==
  [preferences |-> [defaultMaxResults |-> 5, recencyDays |-> 3650,
                    categories |-> <<>>],
   libraryPreview |-> <<>>]

\* CREATE TABLE without IF NOT EXISTS over dropped tables: the rows are lost
onStartRecreatingTables ==
  /\ ~started
  /\ started' = TRUE
  /\ saved_papers' = {}
  /\ paper_summaries' = {}
  /\ \E pv \in updateLibraryPreview({}, state) : state' = pv.st
  /\ UNCHANGED <<calls, removeReq, lastResult, now, toolCalls, saveHistory>>

\* CREATE TABLE IF NOT EXISTS leaves existing rows alone; then the preview is
\* loaded, and a failure of that load is logged and ignored
onStart ==
  /\ ~started
  /\ started' = TRUE
  /\ \E pv \in updateLibraryPreview(saved_papers, state) : state' = pv.st
  /\ UNCHANGED <<saved_papers, paper_summaries, calls, removeReq, lastResult,
                 now, toolCalls, saveHistory>>

Tick ==
  /\ now < MaxClock
  /\ now' = now + 1
  /\ UNCHANGED <<started, saved_papers, paper_summaries, state, calls,
                 removeReq, lastResult, toolCalls, saveHistory>>

Init ==
  /\ started = FALSE
  /\ saved_papers = {}
  /\ paper_summaries = {}
  /\ state = initialState
  /\ calls = [slot \in Slots |-> IdleCall]
  /\ removeReq = NoRequest
  /\ lastResult = Returned("none", <<>>, "done", NoResult, <<>>)
  /\ now = 0
  /\ toolCalls = 0
  /\ saveHistory = [c \in CanonicalIds |-> [count |-> 0, tags |-> {}]]

NextLibrary ==
  \/ onStart
  \/ Tick
  \/ \E slot \in Slots, arxivId \in RawIds, tags \in TagInputs :
       SavePaperCall(slot, arxivId, tags)
  \/ \E slot \in Slots : SavePaperReturn(slot)
  \/ \E arxivId \in RawIds : RemoveToolCall(arxivId)
  \/ UserApprove
  \/ UserDeny
  \/ CleanupMessages
  \/ ProcessApproved
  \/ ProcessDenied

SpecLibrary == Init /\ [][NextLibrary]_vars

(***************************************************************************)
(* An agent that wakes up with a library stored by an earlier session      *)
(***************************************************************************)
DigitChars == <<"0", "1", "2", "3", "4", "5", "6", "7", "8", "9">>

\* the i-th paper saved by the earlier session, at the time -i
StoredRow(i) ==
  [arxiv_id     |-> <<"0", "7", "0", "4", ".", "0", "0", "0", DigitChars[i]>>,
   title        |-> "Stored Paper",
   authors_json |-> JsonStringify(<<"Knuth">>),
   published    |-> "2007-04-01",
   updated      |-> "2007-04-01",
   abstract     |-> "A stored abstract.",
   url          |-> "http://arxiv.org/abs/0704.000",
   tags_json    |-> JsonStringify(<<"a">>),
   saved_at     |-> 0 - i]

\* as many rows as the preview shows
StoredLibrary == {StoredRow(i) : i \in 1..PREVIEW_LIMIT}

InitStored ==
  /\ started = FALSE
  /\ saved_papers = StoredLibrary
  /\ paper_summaries = {}
  /\ state = initialState
  /\ calls = [slot \in Slots |-> IdleCall]
  /\ removeReq = NoRequest
  /\ lastResult = Returned("none", <<>>, "done", NoResult, <<>>)
  /\ now = 0
  /\ toolCalls = 0
  /\ saveHistory = [c \in CanonicalIds |-> [count |-> 0, tags |-> {}]]

SpecStoredLibrary == InitStored /\ [][NextLibrary]_vars

NextSummary ==
  \/ onStart
  \/ Tick
  \/ \E slot \in Slots, arxivId \in RawIds : SummarizeCall(slot, arxivId)
  \/ \E slot \in Slots : SummarizeFetched(slot)
  \/ \E slot \in Slots : SummarizeGenerated(slot)

SpecSummary == Init /\ [][NextSummary]_vars

(***************************************************************************)
(* The three tools that call the Fetch Client, one execution at a time     *)
(***************************************************************************)
\* the executions of these tools do not share state while they wait: one
\* execution in flight shows every outcome of each
FetchSlot == CHOOSE slot \in Slots : TRUE

NextFetch ==
  \/ onStart
  \/ Tick
  \/ \E args \in SearchArgs : SearchCall(FetchSlot, args)
  \/ SearchFetched(FetchSlot)
  \/ \E arxivId \in RawIds : SummarizeCall(FetchSlot, arxivId)
  \/ SummarizeFetched(FetchSlot)
  \/ SummarizeGenerated(FetchSlot)
  \/ \E arxivId \in RawIds, tags \in TagInputs :
       SavePaperCall(FetchSlot, arxivId, tags)
  \/ SavePaperReturn(FetchSlot)

SpecFetch == Init /\ [][NextFetch]_vars

(***************************************************************************)
(* Saving and removing with identifiers that denote no paper               *)
(***************************************************************************)
\* the empty string and a blank: the schema asks for a string and no more
InvalidIds == {<<>>, <<" ">>}

NextInvalidId ==
  \/ onStart
  \/ Tick
  \/ \E arxivId \in InvalidIds \cup {BARE1}, tags \in TagInputs :
       SavePaperCall(FetchSlot, arxivId, tags)
  \/ SavePaperReturn(FetchSlot)
  \/ \E arxivId \in InvalidIds \cup {BARE1} : RemoveToolCall(arxivId)
  \/ UserApprove
  \/ UserDeny
  \/ CleanupMessages
  \/ ProcessApproved
  \/ ProcessDenied

SpecInvalidId == Init /\ [][NextInvalidId]_vars

(***************************************************************************)
(* normalizeArxivId applied to raw identifiers and to arbitrary strings    *)
(***************************************************************************)
HTTP == <<"h","t","t","p",":","/","/">>

HTTPS == <<"h","t","t","p","s",":","/","/">>

\* new-style and old-style ids; one category holds the letter v
PaperIds ==
  {BARE1, BARE2,
   <<"h","e","p","-","t","h","/","9","9","0","1","0","0","1">>,
   <<"s","o","l","v","-","i","n","t","/","9","7","0","1","0","0","2">>}

VersionSuffixes == {<<>>, <<"v","1">>, <<"v","2">>, <<"v","1","2">>}

\* what goes before and after the id: nothing (a bare id), an abs URL, a PDF
\* URL with or without .pdf
UrlShapes ==
  {<<<<>>, <<>>>>}
  \cup {<<scheme \o ARXIV_ABS, <<>>>> : scheme \in {HTTP, HTTPS}}
  \cup {<<scheme \o ARXIV_PDF, ext>> :
          scheme \in {HTTP, HTTPS}, ext \in {<<>>, DOT_PDF}}

\* the raw forms that denote the paper id
RawFormsOf(id) ==
  {shape[1] \o id \o v \o shape[2] : shape \in UrlShapes, v \in VersionSuffixes}

ValidRawIds == UNION {RawFormsOf(id) : id \in PaperIds}

MaxLen == 3

\* every string of at most MaxLen characters over v, a digit and a line feed
RECURSIVE StringsUpTo(_)
StringsUpTo(n) ==
  IF n = 0 THEN {<<>>}
  ELSE StringsUpTo(n - 1)
       \cup {Append(str, c) : str \in {x \in StringsUpTo(n - 1) : Len(x) = n - 1},
                              c \in {"v", "2", "\n"}}

NormalizeInputs ==
  ValidRawIds \cup StringsUpTo(MaxLen)
  \cup {BARE1 \o <<"v","1","v","2">>}

InitNormalize ==
  /\ started = FALSE
  /\ saved_papers = {}
  /\ paper_summaries = {}
  /\ state = initialState
  /\ calls = [slot \in Slots |-> IdleCall]
  /\ removeReq = NoRequest
  /\ \E idOrUrl \in NormalizeInputs :
       lastResult = Returned("input", idOrUrl, "done", NoResult, <<>>)
  /\ now = 0
  /\ toolCalls = 0
  /\ saveHistory = [c \in CanonicalIds |-> [count |-> 0, tags |-> {}]]

\* normalizeArxivId(idOrUrl)
NormalizeCall ==
  /\ lastResult.op = "input"
  /\ lastResult' = Returned("normalizeArxivId", lastResult.arxivId, "done",
                            normalizeArxivId(lastResult.arxivId), <<>>)
  /\ UNCHANGED <<started, saved_papers, paper_summaries, state, calls,
                 removeReq, now, toolCalls, saveHistory>>

\* normalizeArxivId(normalizeArxivId(idOrUrl).canonical)
NormalizeAgain ==
  /\ lastResult.op = "normalizeArxivId"
  /\ lastResult' = Returned("normalizeArxivId twice", lastResult.arxivId, "done",
                            normalizeArxivId(lastResult.result.canonical), <<>>)
  /\ UNCHANGED <<started, saved_papers, paper_summaries, state, calls,
                 removeReq, now, toolCalls, saveHistory>>

NextNormalize == NormalizeCall \/ NormalizeAgain

SpecNormalize == InitNormalize /\ [][NextNormalize]_vars

(***************************************************************************)
(* parseArxivAtom and parseEntry (src/lib/arxiv.ts, listed in README.md)   *)
(***************************************************************************)
\* the characters \s matches
Whitespace == {" ", "\n", "\t", "\r"}

\* str.replace(/\s+/g, " "): every run of whitespace becomes one space
RECURSIVE CollapseWhitespace(_)
CollapseWhitespace(str) ==
  IF Len(str) = 0 THEN <<>>
  ELSE IF str[Len(str)] \notin Whitespace
  THEN Append(CollapseWhitespace(Take(str, Len(str) - 1)), str[Len(str)])
  ELSE IF Len(str) > 1 /\ str[Len(str) - 1] \in Whitespace
  THEN CollapseWhitespace(Take(str, Len(str) - 1))
  ELSE Append(CollapseWhitespace(Take(str, Len(str) - 1)), " ")

\* String.prototype.trim
RECURSIVE Trim(_)
Trim(str) ==
  IF Len(str) = 0 THEN <<>>
  ELSE IF str[1] \in Whitespace THEN Trim(Drop(str, 1))
  ELSE IF str[Len(str)] \in Whitespace THEN Trim(Take(str, Len(str) - 1))
  ELSE str

Clean(str) == Trim(CollapseWhitespace(str))

\* a record without one of its fields: the element or attribute is not there
Without(record, field) == [k \in DOMAIN record \ {field} |-> record[k]]

\* the loop over the links: url and pdfUrl after the links up to the n-th
RECURSIVE ResolveLinks(_, _, _)
ResolveLinks(links, n, idElement) ==
  IF n = 0 THEN [url |-> idElement]
  ELSE LET before == ResolveLinks(links, n - 1, idElement)
           link   == links[n]
           isAlternate == /\ "rel" \in DOMAIN link /\ link.rel = "alternate"
                          /\ "type" \in DOMAIN link /\ link.type = "text/html"
           isPdf == "type" \in DOMAIN link /\ link.type = "application/pdf"
           url == IF isAlternate /\ "href" \in DOMAIN link THEN link.href
                  ELSE before.url
       IN IF isPdf
          THEN IF "href" \in DOMAIN link
               THEN [url |-> url, pdfUrl |-> link.href]
               ELSE [url |-> url]
          ELSE [url |-> url] @@ before

\* the names of the authors that have one, the terms of the categories
NamesOf(elements, field) ==
  LET named == SelectSeq(elements, LAMBDA e : field \in DOMAIN e /\ e[field] # "")
  IN [i \in 1..Len(named) |-> named[i][field]]

ElementsOf(entry, field) == IF field \in DOMAIN entry THEN entry[field] ELSE <<>>

\* the record parseEntry returns for an entry that has id, title and published
PaperOfEntry(entry, normalizedId, categories) ==
  (IF "versioned" \in DOMAIN normalizedId
   THEN [arxivIdVersioned |-> normalizedId.versioned,
         version |-> normalizedId.version]
   ELSE EmptyPartial) @@
  (IF "updated" \in DOMAIN entry THEN [updated |-> entry.updated]
   ELSE EmptyPartial) @@
  (IF Len(categories) > 0 THEN [categories |-> categories] ELSE EmptyPartial) @@
  ResolveLinks(ElementsOf(entry, "link"), Len(ElementsOf(entry, "link")),
               entry.id) @@
  [arxivId   |-> normalizedId.canonical,
   title     |-> Clean(entry.title),
   authors   |-> NamesOf(ElementsOf(entry, "author"), "name"),
   published |-> entry.published,
   abstract  |-> IF "summary" \in DOMAIN entry THEN Clean(entry.summary)
                 ELSE <<>>]

\* !idElement, !title, !published: the element is not there or it is empty
Missing(entry, field) == field \notin DOMAIN entry \/ entry[field] = <<>>

\* parseEntry: null when <id>, <title> or <published> is missing or empty
parseEntry(entry) ==
  IF Missing(entry, "id") \/ Missing(entry, "title") \/ Missing(entry, "published")
  THEN NoPaper
  ELSE PaperOfEntry(entry, normalizeArxivId(entry.id),
                    NamesOf(ElementsOf(entry, "category"), "term"))

\* the loop over the entries, ended by the first entry that is skipped
RECURSIVE ParseEntriesStoppingAtSkipped(_)
ParseEntriesStoppingAtSkipped(entries) ==
  IF Len(entries) = 0 THEN <<>>
  ELSE IF parseEntry(entries[1]) = NoPaper THEN <<>>
  ELSE <<parseEntry(entries[1])>>
       \o ParseEntriesStoppingAtSkipped(Drop(entries, 1))

\* the loop over the entries: the papers of the entries that give one
RECURSIVE ParseEntries(_)
ParseEntries(entries) ==
  IF Len(entries) = 0 THEN <<>>
  ELSE IF parseEntry(entries[Len(entries)]) = NoPaper
  THEN ParseEntries(Take(entries, Len(entries) - 1))
  ELSE Append(ParseEntries(Take(entries, Len(entries) - 1)),
              parseEntry(entries[Len(entries)]))

\* parseArxivAtom on a document the XML parser rejects, on one without
\* <feed>, and on a feed with its entries
parseArxivAtom(xml) ==
  IF xml.kind \in {"unparseable", "nofeed"} THEN <<>>
  ELSE ParseEntries(xml.entries)

(***************************************************************************)
(* Documents to parse                                                      *)
(***************************************************************************)
ALTERNATE_LINK ==
  [href |-> <<"w","e","b">>, rel |-> "alternate", type |-> "text/html"]

PDF_LINK1 ==
  [href |-> <<"p","d","f","1">>, rel |-> "related", type |-> "application/pdf"]

PDF_LINK2 ==
  [href |-> <<"p","d","f","2">>, rel |-> "related", type |-> "application/pdf"]

\* an entry with every element, its title and summary spread over lines
FullEntry ==
  [id        |-> HTTP \o ARXIV_ABS \o BARE1 \o <<"v","2">>,
   title     |-> <<" ","A"," ","\n"," ","B","\n">>,
   published |-> <<"2","0","2","3">>,
   updated   |-> <<"2","0","2","4">>,
   summary   |-> <<"W","e","\n","d","o">>,
   author    |-> <<[name |-> "Ho"], [affiliation |-> "MIT"], [name |-> "Jain"]>>,
   link      |-> <<ALTERNATE_LINK, PDF_LINK1>>,
   category  |-> <<[term |-> "cs.AI"], [term |-> "cs.LG"]>>]

\* an old-style entry with the three mandatory elements only
BareEntry ==
  [id        |-> HTTP \o ARXIV_ABS \o BARE2,
   title     |-> <<"C">>,
   published |-> <<"1","9","9","9">>]

Entries ==
  {FullEntry, BareEntry,
   Without(FullEntry, "id"), Without(BareEntry, "title"),
   Without(FullEntry, "published"),
   [BareEntry EXCEPT !.published = <<>>],
   [FullEntry EXCEPT !.title = <<" ","\n">>],
   [FullEntry EXCEPT !.link = <<PDF_LINK1, PDF_LINK2, ALTERNATE_LINK>>],
   [FullEntry EXCEPT !.link = <<PDF_LINK1, Without(PDF_LINK2, "href")>>],
   [FullEntry EXCEPT !.link = <<Without(ALTERNATE_LINK, "href")>>]}

MaxEntries == 2

RECURSIVE FeedsUpTo(_)
FeedsUpTo(n) ==
  IF n = 0 THEN {<<>>}
  ELSE FeedsUpTo(n - 1)
       \cup {Append(feed, e) : feed \in {f \in FeedsUpTo(n - 1) : Len(f) = n - 1},
                               e \in Entries}

Documents ==
  {[kind |-> "unparseable"], [kind |-> "nofeed"]}
  \cup {[kind |-> "feed", entries |-> feed] : feed \in FeedsUpTo(MaxEntries)}

InitParse ==
  /\ started = FALSE
  /\ saved_papers = {}
  /\ paper_summaries = {}
  /\ state = initialState
  /\ calls = [slot \in Slots |-> IdleCall]
  /\ removeReq = NoRequest
  /\ \E xml \in Documents :
       lastResult = [xml |-> xml] @@ Returned("input", <<>>, "done", NoResult, <<>>)
  /\ now = 0
  /\ toolCalls = 0
  /\ saveHistory = [c \in CanonicalIds |-> [count |-> 0, tags |-> {}]]

\* parseArxivAtom(xml): every failure inside is caught, so it returns
ParseCall ==
  /\ lastResult.op = "input"
  /\ lastResult' = [xml |-> lastResult.xml] @@
                   Returned("parseArxivAtom", <<>>, "done",
                            [papers |-> parseArxivAtom(lastResult.xml)], <<>>)
  /\ UNCHANGED <<started, saved_papers, paper_summaries, state, calls,
                 removeReq, now, toolCalls, saveHistory>>

NextParse == ParseCall

SpecParse == InitParse /\ [][NextParse]_vars

(***************************************************************************)
(* fetchArxivPapers and fetchArxivPaperById against the upstream           *)
(***************************************************************************)
API_QUERY == "https://export.arxiv.org/api/query"

\* buildArxivQueryUrl: the parameters of the query string, before encoding
buildArxivQueryUrl(query, options) ==
  [base         |-> API_QUERY,
   search_query |-> IF Len(options.categories) > 0
                    THEN <<"all:(", query, ")+AND+(", options.categories, ")">>
                    ELSE <<"all:", query>>,
   start        |-> 0,
   max_results  |-> options.maxResults,
   sortBy       |-> options.sortBy,
   sortOrder    |-> options.sortOrder]

\* the URL of the raw input instead of the canonical id
ByIdUrlOfInput(arxivId) == [base |-> API_QUERY, id_list |-> arxivId]

\* `https://export.arxiv.org/api/query?id_list=${normalized.canonical}`
ByIdUrl(arxivId) ==
  [base |-> API_QUERY, id_list |-> normalizeArxivId(arxivId).canonical]

\* response.ok
Ok(status) == status >= 200 /\ status <= 299

ResponseStatuses == {200, 404, 503}

ClientBodies ==
  {[kind |-> "unparseable"],
   [kind |-> "feed", entries |-> <<>>],
   [kind |-> "feed", entries |-> <<BareEntry>>],
   [kind |-> "feed", entries |-> <<FullEntry, BareEntry>>]}

\* what fetchImpl(url) and response.text() can do: the request fails in
\* transport, or a response arrives, whose body is read or fails to be read
UpstreamResponses ==
  {[kind |-> "rejected"]}
  \cup {[kind |-> "response", status |-> st] :
          st \in {x \in ResponseStatuses : ~Ok(x)}}
  \cup {[kind |-> "response", status |-> st, text |-> body] :
          st \in {x \in ResponseStatuses : Ok(x)}, body \in ClientBodies}
  \cup {[kind |-> "response", status |-> st, text |-> [kind |-> "rejected"]] :
          st \in {x \in ResponseStatuses : Ok(x)}}

\* the calls of fetchImpl one execution makes: one, in no loop; issued twice
FetchImplCallsTwice(url) == <<<<"REQUEST", url>>, <<"REQUEST", url>>>>

FetchImplCalls(url) == <<<<"REQUEST", url>>>>

\* what the function returns from the parsed feed
ClientValue(fn, papers) ==
  IF fn = "fetchArxivPapers" THEN [papers |-> papers]
  ELSE IF Len(papers) > 0 THEN [paper |-> papers[1]]
  ELSE NoPaper

\* a response read without looking at response.ok
ClientOutcomeIgnoringStatus(fn, response) ==
  IF response.kind = "rejected"
  THEN [pc |-> "thrown",
        result |-> [error |-> [kind |-> "ArxivNetworkError"]] @@ Thrown]
  ELSE IF "text" \notin DOMAIN response
  THEN [pc |-> "done", result |-> ClientValue(fn, <<>>)]
  ELSE IF response.text.kind = "rejected"
  THEN [pc |-> "thrown", result |-> [error |-> [kind |-> "Error"]] @@ Thrown]
  ELSE [pc |-> "done", result |-> ClientValue(fn, parseArxivAtom(response.text))]

\* from the answer of fetchImpl to the end of the function
ClientOutcome(fn, response) ==
  IF response.kind = "rejected"
  THEN [pc |-> "thrown",
        result |-> [error |-> [kind |-> "ArxivNetworkError"]] @@ Thrown]
  ELSE IF ~Ok(response.status)
  THEN [pc |-> "thrown",
        result |-> [error |-> [kind |-> "ArxivHttpError",
                               status |-> response.status]] @@ Thrown]
  ELSE IF response.text.kind = "rejected"
  THEN [pc |-> "thrown", result |-> [error |-> [kind |-> "Error"]] @@ Thrown]
  ELSE [pc |-> "done", result |-> ClientValue(fn, parseArxivAtom(response.text))]

ClientOptions ==
  {[maxResults |-> 5, categories |-> cats, sortBy |-> "submittedDate",
    sortOrder |-> "descending"] : cats \in {<<>>, <<"cs.AI">>}}

\* a call that awaits fetchImpl(url)
Requesting(fn, arxivId, url) ==
  [IdleCall EXCEPT !.op = fn, !.pc = "requesting", !.arxivId = arxivId,
                   !.io = FetchImplCalls(url)]

\* fetchArxivPapers(query, options) up to its await of fetchImpl
FetchPapersCall(slot, query, options) ==
  /\ Free(slot)
  /\ toolCalls < MaxToolCalls
  /\ toolCalls' = toolCalls + 1
  /\ calls' = [calls EXCEPT ![slot] =
        Requesting("fetchArxivPapers", <<>>, buildArxivQueryUrl(query, options))]
  /\ UNCHANGED <<started, saved_papers, paper_summaries, state, removeReq,
                 lastResult, now, saveHistory>>

\* fetchArxivPaperById(arxivId) up to its await of fetchImpl
FetchByIdCall(slot, arxivId) ==
  /\ Free(slot)
  /\ toolCalls < MaxToolCalls
  /\ toolCalls' = toolCalls + 1
  /\ calls' = [calls EXCEPT ![slot] =
        Requesting("fetchArxivPaperById", arxivId, ByIdUrl(arxivId))]
  /\ UNCHANGED <<started, saved_papers, paper_summaries, state, removeReq,
                 lastResult, now, saveHistory>>

\* the upstream answers and the function runs to its end
ClientAnswered(slot) ==
  /\ calls[slot].pc = "requesting"
  /\ \E response \in UpstreamResponses :
       LET out == ClientOutcome(calls[slot].op, response)
       IN lastResult' = Returned(calls[slot].op, calls[slot].arxivId, out.pc,
                                 out.result,
                                 Append(calls[slot].io, <<"RESPONSE", response>>))
  /\ calls' = [calls EXCEPT ![slot] = IdleCall]
  /\ UNCHANGED <<started, saved_papers, paper_summaries, state, removeReq, now,
                 toolCalls, saveHistory>>

NextClient ==
  \/ \E query \in Queries, options \in ClientOptions :
       FetchPapersCall(FetchSlot, query, options)
  \/ \E arxivId \in RawIds \cup {VERSIONED1} : FetchByIdCall(FetchSlot, arxivId)
  \/ ClientAnswered(FetchSlot)

SpecClient == Init /\ [][NextClient]_vars

(***************************************************************************)
(* The Fetch Client and the tools that call it, side by side               *)
(***************************************************************************)
NextRequests ==
  \/ onStart
  \/ \E query \in Queries :
       FetchPapersCall(FetchSlot, query, CHOOSE options \in ClientOptions : TRUE)
  \/ FetchByIdCall(FetchSlot, VERSIONED1)
  \/ ClientAnswered(FetchSlot)
  \/ \E query \in Queries : SearchCall(FetchSlot, [query |-> query])
  \/ SearchFetched(FetchSlot)
  \/ SummarizeCall(FetchSlot, BARE1)
  \/ SummarizeFetched(FetchSlot)
  \/ SummarizeGenerated(FetchSlot)
  \/ SavePaperCall(FetchSlot, BARE1, CHOOSE tags \in TagInputs : TRUE)
  \/ SavePaperReturn(FetchSlot)

SpecRequests == Init /\ [][NextRequests]_vars

(***************************************************************************)
(* An agent whose summaries were written before the prompt version changed *)
(***************************************************************************)
\* values SUMMARY_PROMPT_VERSION had in earlier deployments
PriorPromptVersions == {<<"v", "0">>, <<"v", "1", "0">>}

\* the rows summarizePaper wrote then: the same key template, another version
PriorSummaries ==
  {[arxiv_id |-> arxivId \o <<":">> \o version, summary_md |-> "s0",
    created_at |-> 0] : arxivId \in RawIds, version \in PriorPromptVersions}

InitBumped ==
  /\ started = FALSE
  /\ saved_papers = {}
  /\ paper_summaries = PriorSummaries
  /\ state = initialState
  /\ calls = [slot \in Slots |-> IdleCall]
  /\ removeReq = NoRequest
  /\ lastResult = Returned("none", <<>>, "done", NoResult, <<>>)
  /\ now = 0
  /\ toolCalls = 0
  /\ saveHistory = [c \in CanonicalIds |-> [count |-> 0, tags |-> {}]]

NextBumped ==
  \/ onStart
  \/ Tick
  \/ \E arxivId \in RawIds : SummarizeCall(FetchSlot, arxivId)
  \/ SummarizeFetched(FetchSlot)
  \/ SummarizeGenerated(FetchSlot)

SpecBumped == InitBumped /\ [][NextBumped]_vars

(***************************************************************************)
(* savePaper called with tag lists that repeat a tag                       *)
(***************************************************************************)
\* the tags schema passes an array through as it is: no element is dropped
RepeatedTagInputs == {<<"a", "a">>, <<"b">>}

NextRepeatedTags ==
  \/ onStart
  \/ Tick
  \/ \E tags \in RepeatedTagInputs : SavePaperCall(FetchSlot, BARE1, tags)
  \/ SavePaperReturn(FetchSlot)

SpecRepeatedTags == Init /\ [][NextRepeatedTags]_vars

(***************************************************************************)
(* listSavedPapers.execute                                                 *)
(***************************************************************************)
\* tags.some((t) => t.toLowerCase() === tag.toLowerCase()), by containment
paperHasTagContaining(row, tag) ==
  \E t \in Range(safeJsonParse(row.tags_json, <<>>)) :
     Includes(ToLower(t), ToLower(tag))

paperHasTag(row, tag) ==
  \E t \in Range(safeJsonParse(row.tags_json, <<>>)) : ToLower(t) = ToLower(tag)

paperMatchesText(row, text) ==
  \/ Includes(ToLower(row.title), ToLower(text))
  \/ Includes(ToLower(row.abstract), ToLower(text))

rowToListPaper(row) ==
  [arxivId   |-> row.arxiv_id,
   title     |-> row.title,
   authors   |-> safeJsonParse(row.authors_json, <<>>),
   published |-> row.published,
   abstract  |-> row.abstract,
   url       |-> row.url,
   tags      |-> safeJsonParse(row.tags_json, <<>>),
   savedAt   |-> row.saved_at]

DEFAULT_LIMIT == 20

MAX_LIMIT == 100

Min(a, b) == IF a < b THEN a ELSE b

Max(a, b) == IF a > b THEN a ELSE b

\* limit = 20 in the parameter list
LimitOf(args) == IF "limit" \in DOMAIN args THEN args.limit ELSE DEFAULT_LIMIT

EffectiveLimit(args) == Max(1, Min(LimitOf(args), MAX_LIMIT))

\* !tag and !filterText: an absent or empty string filters nothing
Falsy(args, field) == field \notin DOMAIN args \/ args[field] = <<>>

KeepsRow(row, args) ==
  /\ Falsy(args, "tag") \/ paperHasTag(row, args.tag)
  /\ Falsy(args, "filterText") \/ paperMatchesText(row, args.filterText)

\* the rows in the order of the SELECT, through the two filters
Filtered(allPapers, args) ==
  SelectSeq(allPapers, LAMBDA row : KeepsRow(row, args))

\* filtered.slice(0, effectiveLimit).map(rowToListPaper)
ListPapers(filtered, effectiveLimit) ==
  [i \in 1..Min(Len(filtered), effectiveLimit) |-> rowToListPaper(filtered[i])]

\* the flag set as soon as the page is full
WasTruncatedAtLimit(totalCount, effectiveLimit) == totalCount >= effectiveLimit

WasTruncated(totalCount, effectiveLimit) == totalCount > effectiveLimit

\* { papers, filterText, tagFilter: tag, totalCount, wasTruncated }; a field
\* whose value is undefined is a field the result does not have
ListResult(filtered, args) ==
  (IF "filterText" \in DOMAIN args THEN [filterText |-> args.filterText]
   ELSE EmptyPartial) @@
  (IF "tag" \in DOMAIN args THEN [tagFilter |-> args.tag] ELSE EmptyPartial) @@
  [papers       |-> ListPapers(filtered, EffectiveLimit(args)),
   totalCount   |-> Len(filtered),
   wasTruncated |-> WasTruncated(Len(filtered), EffectiveLimit(args))]

ListError ==
  [papers |-> <<>>, totalCount |-> 0, wasTruncated |-> FALSE,
   error |-> <<"Failed to retrieve saved papers from database.">>]

\* the ways one execution can go: the SELECT fails, or it answers the rows in
\* one of the orders ORDER BY saved_at DESC allows
listSavedPapers(table, args) ==
  {IF ErrorTests[f].database
   THEN [pc |-> "done", result |-> ListError, io |-> <<<<"SELECT", f>>>>]
   ELSE [pc |-> "thrown", result |-> Thrown, io |-> <<<<"SELECT", f>>>>]
     : f \in SqlFaults}
  \cup
  {[pc |-> "done", result |-> ListResult(Filtered(allPapers, args), args),
    io |-> <<<<"SELECT", NoFault>>>>] : allPapers \in OrderBySavedAtDesc(table)}

\* listing reads the table and writes nothing: calls do not affect each other
MaxListCalls == 1

\* the listing followed by a recompute of the preview
ListCallRefreshingPreview(args) ==
  /\ started
  /\ toolCalls < MaxListCalls
  /\ toolCalls' = toolCalls + 1
  /\ \E out \in listSavedPapers(saved_papers, args) :
       lastResult' = [args |-> args] @@
                     Returned("listSavedPapers", <<>>, out.pc, out.result, out.io)
  /\ \E pv \in updateLibraryPreview(saved_papers, state) : state' = pv.st
  /\ UNCHANGED <<started, saved_papers, paper_summaries, calls,
                 removeReq, now, saveHistory>>

ListCall(args) ==
  /\ started
  /\ toolCalls < MaxListCalls
  /\ toolCalls' = toolCalls + 1
  /\ \E out \in listSavedPapers(saved_papers, args) :
       lastResult' = [args |-> args] @@
                     Returned("listSavedPapers", <<>>, out.pc, out.result, out.io)
  /\ UNCHANGED <<started, saved_papers, paper_summaries, state, calls,
                 removeReq, now, saveHistory>>

(***************************************************************************)
(* Libraries to list, and the arguments of the calls                       *)
(***************************************************************************)
ListedRow(digit, title, abstract, tags, saved_at) ==
  [arxiv_id     |-> <<"0", "8", "0", "1", ".", "0", "0", "0", digit>>,
   title        |-> title,
   authors_json |-> JsonStringify(<<"Knuth">>),
   published    |-> "2008-01-01",
   updated      |-> "2008-01-01",
   abstract     |-> abstract,
   url          |-> "http://arxiv.org/abs/0801.000",
   tags_json    |-> JsonStringify(tags),
   saved_at     |-> saved_at]

\* two of the rows were saved in the same millisecond
ListedRows ==
  {ListedRow("1", <<"G","a","n">>, <<"n","e","t">>, <<<<"M","L">>>>, 3),
   ListedRow("2", <<"N","e","t">>, <<"g","a","n">>,
             <<<<"m","l">>, <<"c","v">>>>, 2),
   ListedRow("3", <<"B","e","r","t">>, <<"n","l","p">>, <<<<"m","l","x">>>>, 2),
   ListedRow("4", <<"V","i","t">>, <<"c","v">>, <<>>, 1)}

TagFilters == {<<>>, <<"m","l">>, <<"m">>, <<"C","V">>}

TextFilters == {<<>>, <<"A","N">>, <<"n">>, <<"c","v">>}

Limits == {1, 2, 150}

ListArgs ==
  {t @@ f @@ l :
     t \in {EmptyPartial} \cup {[tag |-> x] : x \in TagFilters},
     f \in {EmptyPartial} \cup {[filterText |-> x] : x \in TextFilters},
     l \in {EmptyPartial} \cup {[limit |-> x] : x \in Limits}}

InitListed ==
  /\ started = FALSE
  /\ saved_papers \in SUBSET ListedRows
  /\ paper_summaries = {}
  /\ state = initialState
  /\ calls = [slot \in Slots |-> IdleCall]
  /\ removeReq = NoRequest
  /\ lastResult = Returned("none", <<>>, "done", NoResult, <<>>)
  /\ now = 0
  /\ toolCalls = 0
  /\ saveHistory = [c \in CanonicalIds |-> [count |-> 0, tags |-> {}]]

NextList ==
  \/ onStart
  \/ \E args \in ListArgs : ListCall(args)

SpecList == InitListed /\ [][NextList]_vars

(***************************************************************************)
(* A session over a library that is already stored: every tool             *)
(***************************************************************************)
\* preferences the user set in an earlier session (this core never sets them)
CustomPreferences ==
  [defaultMaxResults |-> 1, recencyDays |-> 1, categories |-> <<"cs.AI">>]

Preferences == {initialState.preferences, CustomPreferences}

STORED1 == StoredRow(1).arxiv_id

InitSession ==
  /\ started = FALSE
  /\ saved_papers = StoredLibrary
  /\ paper_summaries = {}
  /\ state \in {[preferences |-> p, libraryPreview |-> <<>>] : p \in Preferences}
  /\ calls = [slot \in Slots |-> IdleCall]
  /\ removeReq = NoRequest
  /\ lastResult = Returned("none", <<>>, "done", NoResult, <<>>)
  /\ now = 0
  /\ toolCalls = 0
  /\ saveHistory = [c \in CanonicalIds |-> [count |-> 0, tags |-> {}]]

NextSession ==
  \/ onStart
  \/ \E query \in Queries : SearchCall(FetchSlot, [query |-> query])
  \/ SearchFetched(FetchSlot)
  \/ SummarizeCall(FetchSlot, BARE1)
  \/ SummarizeFetched(FetchSlot)
  \/ SummarizeGenerated(FetchSlot)
  \/ SavePaperCall(FetchSlot, BARE1, CHOOSE tags \in TagInputs : TRUE)
  \/ SavePaperReturn(FetchSlot)
  \/ ListCall([limit |-> 2])
  \/ \E arxivId \in {BARE1, STORED1} : RemoveToolCall(arxivId)
  \/ UserApprove
  \/ UserDeny
  \/ CleanupMessages
  \/ ProcessApproved
  \/ ProcessDenied

SpecSession == InitSession /\ [][NextSession]_vars

(***************************************************************************)
(* A restart: what an earlier session left in the tables and in the state  *)
(***************************************************************************)
\* a row saved after those of StoredLibrary
LATER_ROW == [StoredRow(1) EXCEPT !.arxiv_id = BARE2, !.saved_at = 0]

StoredLibraries ==
  {{}, {StoredRow(1)}, StoredLibrary, StoredLibrary \cup {LATER_ROW}}

\* the preview may be behind the table: a recompute that failed left it so
StoredPreviews == {<<>>, <<PreviewItem(LATER_ROW)>>}

InitRestarted ==
  /\ started = FALSE
  /\ saved_papers \in StoredLibraries
  /\ paper_summaries \in {{}, PriorSummaries}
  /\ state \in {[preferences |-> p, libraryPreview |-> preview] :
                  p \in Preferences, preview \in StoredPreviews}
  /\ calls = [slot \in Slots |-> IdleCall]
  /\ removeReq = NoRequest
  /\ lastResult = Returned("none", <<>>, "done", NoResult, <<>>)
  /\ now = 0
  /\ toolCalls = 0
  /\ saveHistory = [c \in CanonicalIds |-> [count |-> 0, tags |-> {}]]

NextRestarted ==
  \/ onStart
  \/ Tick
  \/ SavePaperCall(FetchSlot, BARE1, CHOOSE tags \in TagInputs : TRUE)
  \/ SavePaperReturn(FetchSlot)

SpecRestarted == InitRestarted /\ [][NextRestarted]_vars

(***************************************************************************)
(* Saving a paper and removing it again, over a stored library             *)
(***************************************************************************)
\* the preview of StoredLibrary (its rows differ in saved_at)
StoredPreview == CHOOSE preview \in LibraryPreviews(StoredLibrary) : TRUE

RoundTripIds == {BARE1, VERSIONED1, PDFURL1, UNTITLED1}

InitRoundTrip ==
  /\ started = FALSE
  /\ saved_papers = StoredLibrary
  /\ paper_summaries = {}
  /\ state = [initialState EXCEPT !.libraryPreview = StoredPreview]
  /\ calls = [slot \in Slots |-> IdleCall]
  /\ removeReq = NoRequest
  /\ lastResult = Returned("none", <<>>, "done", NoResult, <<>>)
  /\ now = 0
  /\ toolCalls = 0
  /\ saveHistory = [c \in CanonicalIds |-> [count |-> 0, tags |-> {}]]

NextRoundTrip ==
  \/ onStart
  \/ Tick
  \/ \E arxivId \in RoundTripIds :
       SavePaperCall(FetchSlot, arxivId, CHOOSE tags \in TagInputs : TRUE)
  \/ SavePaperReturn(FetchSlot)
  \/ \E arxivId \in RoundTripIds : RemoveToolCall(arxivId)
  \/ UserApprove
  \/ UserDeny
  \/ CleanupMessages
  \/ ProcessApproved
  \/ ProcessDenied

SpecRoundTrip == InitRoundTrip /\ [][NextRoundTrip]_vars

(***************************************************************************)
(* Vocabulary of the properties                                            *)
(***************************************************************************)
StoredIds(table) == {r.arxiv_id : r \in table}

TagSet(row) == Range(safeJsonParse(row.tags_json, <<>>))

TagSeq(row) == safeJsonParse(row.tags_json, <<>>)

\* what the statements or requests of one kind answered in an execution
IoAnswers(io, stmt) == {io[i][2] : i \in {j \in 1..Len(io) : io[j][1] = stmt}}

\* a savePaper execution resumes from its fetch and ends in this step
SaveReturns(slot) ==
  /\ calls[slot].op = "savePaper"
  /\ calls[slot].pc = "fetching"
  /\ calls'[slot].pc = "idle"

ConflictMessage == <<"Paper already exists in library (race condition detected).">>

(***************************************************************************)
(* C1: for the successful savePaper calls of one canonical id since its    *)
(* last removal, saved_papers holds exactly one row for the id, the row's  *)
(* tag set is the union of the tag lists passed to those calls, and the    *)
(* call that just returned reports wasAlreadySaved = FALSE if it is the    *)
(* first of them and TRUE if it is a later one.                            *)
(***************************************************************************)
C1_TagUnionOfSuccessfulSaves ==
  /\ \A c \in CanonicalIds :
       saveHistory[c].count > 0 =>
         /\ Cardinality(SelectSavedPaper(saved_papers, c)) = 1
         /\ \A r \in SelectSavedPaper(saved_papers, c) :
              TagSet(r) = saveHistory[c].tags
  /\ (lastResult.op = "savePaper" /\ IsSuccess(lastResult.result)) =>
       LET c == lastResult.result.arxivId
       IN /\ saveHistory[c].count >= 1
          /\ lastResult.result.wasAlreadySaved <=> saveHistory[c].count >= 2

\* the same id saved with {a,b} and then {b,c} through two raw forms
C1_Witness ==
  /\ lastResult.op = "savePaper"
  /\ IsSuccess(lastResult.result)
  /\ lastResult.result.wasAlreadySaved
  /\ \E c \in CanonicalIds :
       /\ saveHistory[c].count = 2
       /\ saveHistory[c].tags = {"a", "b", "c"}
       /\ \E r \in saved_papers : r.arxiv_id = c /\ TagSet(r) = {"a", "b", "c"}

(***************************************************************************)
(* C2: in every reachable state saved_papers holds at most one row per     *)
(* canonical id, also when two savePaper calls for the id have both passed *)
(* the existence check before either inserted.                             *)
(***************************************************************************)
C2_AtMostOneRowPerId ==
  \A r1 \in saved_papers, r2 \in saved_papers :
    r1.arxiv_id = r2.arxiv_id => r1 = r2

\* a call that passed the existence check is still fetching while the row of
\* its id has been inserted by the other call
C2_Witness ==
  \E slot \in Slots :
    /\ calls[slot].pc = "fetching"
    /\ SelectSavedPaper(saved_papers, calls[slot].canonicalId) # {}
    /\ toolCalls = 2

(***************************************************************************)
(* C3: when a savePaper call that passed the existence check reaches its   *)
(* INSERT after the row of its id was written by another call (and the     *)
(* storage layer raises no unrelated fault), it returns the 'already       *)
(* exists' error result, it does not throw, and saved_papers is unchanged. *)
(***************************************************************************)
C3_DuplicateInsertReported ==
  [][\A slot \in Slots :
       (/\ SaveReturns(slot)
        /\ SelectSavedPaper(saved_papers, calls[slot].canonicalId) # {}
        /\ IoAnswers(lastResult'.io, "INSERT") # {}
        /\ IoAnswers(lastResult'.io, "INSERT") \cap InsertFaults = {})
       => /\ ~lastResult'.threw
          /\ "error" \in DOMAIN lastResult'.result
          /\ lastResult'.result.error = ConflictMessage
          /\ saved_papers' = saved_papers]_vars

C3_Witness ==
  /\ lastResult.op = "savePaper"
  /\ ~lastResult.threw
  /\ "error" \in DOMAIN lastResult.result
  /\ lastResult.result.error = ConflictMessage
  /\ SelectSavedPaper(saved_papers, lastResult.result.arxivId) # {}

C5_DeniedRemoveChangesNothing ==
  [][(removeReq' # removeReq /\ removeReq.state # "Approved") =>
       UNCHANGED <<saved_papers, paper_summaries, state>>]_vars

\* a denied and aborted request for a paper that is stored
C5_Witness ==
  /\ removeReq.state = "Aborted"
  /\ Normalize(removeReq.arxivId).canonical \in StoredIds(saved_papers)

(***************************************************************************)
(* C6: a savePaper call for an id that is stored changes nothing but the   *)
(* tags of the row of that id: the row keeps its title, authors,           *)
(* published, updated, abstract, url and saved_at, and every other row is  *)
(* unchanged.                                                              *)
(***************************************************************************)
C6_RepeatSaveChangesOnlyTags ==
  [][(/\ lastResult'.op = "savePaper"
      /\ Normalize(lastResult'.arxivId).canonical \in StoredIds(saved_papers)) =>
       LET c == Normalize(lastResult'.arxivId).canonical
       IN /\ StoredIds(saved_papers') = StoredIds(saved_papers)
          /\ \A r \in saved_papers :
               r.arxiv_id # c => r \in saved_papers'
          /\ \A r \in saved_papers, r2 \in saved_papers' :
               r.arxiv_id = r2.arxiv_id =>
                 [r2 EXCEPT !.tags_json = r.tags_json] = r]_vars

\* a second save has added a tag to a row while the upstream record it
\* would have fetched differs from the stored one, and another row exists
C6_Witness ==
  /\ lastResult.op = "savePaper"
  /\ IsSuccess(lastResult.result)
  /\ lastResult.result.wasAlreadySaved
  /\ lastResult.result.tags = <<"a", "b", "c">>
  /\ Cardinality(saved_papers) = 2

(***************************************************************************)
(* C7: an id enters saved_papers only in the step in which a savePaper     *)
(* call resumes from a fetch that returned a paper, and the new row holds  *)
(* that paper's title, authors, published, updated (published when the     *)
(* paper has none), abstract and url; when the fetch ends in a network     *)
(* error, an HTTP error or not-found the call returns an error result and  *)
(* saved_papers and the agent state (libraryPreview) are unchanged.        *)
(***************************************************************************)
C7_InsertOnlyFetchedMetadata ==
  [][/\ (StoredIds(saved_papers') \ StoredIds(saved_papers) # {}) =>
          \E slot \in Slots :
            /\ SaveReturns(slot)
            /\ \E fetched \in IoAnswers(lastResult'.io, "FETCH") :
                 /\ fetched.kind = "paper"
                 /\ \E r \in saved_papers' \ saved_papers :
                      /\ saved_papers' = saved_papers \cup {r}
                      /\ r.arxiv_id = calls[slot].canonicalId
                      /\ r.title = fetched.paper.title
                      /\ r.authors_json = JsonStringify(fetched.paper.authors)
                      /\ r.published = fetched.paper.published
                      /\ r.updated = IF fetched.paper.updated = Absent
                                     THEN fetched.paper.published
                                     ELSE fetched.paper.updated
                      /\ r.abstract = fetched.paper.abstract
                      /\ r.url = fetched.paper.url
     /\ \A slot \in Slots :
          (/\ SaveReturns(slot)
           /\ \E fetched \in IoAnswers(lastResult'.io, "FETCH") :
                fetched.kind \in {"ArxivNetworkError", "ArxivHttpError", "null"})
          => /\ ~lastResult'.threw
             /\ "error" \in DOMAIN lastResult'.result
             /\ UNCHANGED <<saved_papers, state>>]_vars

\* a row written from a fetched paper that has no updated date
C7_Witness ==
  /\ lastResult.op = "savePaper"
  /\ IsSuccess(lastResult.result)
  /\ ~lastResult.result.wasAlreadySaved
  /\ \E r \in saved_papers :
       /\ r.arxiv_id = lastResult.result.arxivId
       /\ r.title = PAPER1_V1.title
       /\ r.updated = PAPER1_V1.published

(***************************************************************************)
(* Vocabulary of the summary-cache properties                              *)
(***************************************************************************)
IoCount(io, stmt) == Cardinality({j \in 1..Len(io) : io[j][1] = stmt})

\* the execution that ended last is a summarizePaper call for arxivId
SummarizeEnded(arxivId) ==
  /\ lastResult.op = "summarizePaper"
  /\ lastResult.arxivId = arxivId

\* ... and it returned a summary it generated and wrote to the cache
SummarizeStored(arxivId) ==
  /\ SummarizeEnded(arxivId)
  /\ ~lastResult.threw
  /\ "error" \notin DOMAIN lastResult.result
  /\ ~lastResult.result.cached
  /\ IoAnswers(lastResult.io, "INSERT") = {NoFault}

\* a summarizePaper call for arxivId goes on to the fetch in this step
SummarizeGoesOn(arxivId) ==
  \E slot \in Slots :
    /\ calls'[slot] # calls[slot]
    /\ calls'[slot].op = "summarizePaper"
    /\ calls'[slot].pc = "fetching"
    /\ calls'[slot].arxivId = arxivId

\* a summarizePaper call for arxivId is made and ends in this step
SummarizeHits(arxivId) ==
  /\ calls' = calls
  /\ lastResult'.op = "summarizePaper"
  /\ lastResult'.arxivId = arxivId

\* a summarizePaper call for arxivId is made in this step
SummarizeStarts(arxivId) ==
  /\ toolCalls' = toolCalls + 1
  /\ SummarizeGoesOn(arxivId) \/ SummarizeHits(arxivId)

\* the call made in this step got an answer from its cache lookup
LookupAnswered ==
  /\ \A slot \in Slots :
       calls'[slot] # calls[slot] =>
         IoAnswers(calls'[slot].io, "SELECT") = {NoFault}
  /\ calls' = calls => IoAnswers(lastResult'.io, "SELECT") = {NoFault}

\* the call made in this step returns the cached text of the call before it
\* and asks nothing of the generation service
AnsweredFromCache(arxivId) ==
  /\ SummarizeHits(arxivId)
  /\ ~lastResult'.threw
  /\ lastResult'.result.cached
  /\ lastResult'.result.summaryMd = lastResult.result.summaryMd
  /\ IoCount(lastResult'.io, "GENERATE") = 0

(***************************************************************************)
(* C8, as stated: whenever a summarizePaper call for an id is made after   *)
(* a summarizePaper call for the same id has ended, the second call        *)
(* returns cached = TRUE with the text the first one returned, the two     *)
(* calls asking the generation service once in total.                      *)
(***************************************************************************)
C8_SecondCallAlwaysCached ==
  [][\A arxivId \in RawIds :
       (SummarizeEnded(arxivId) /\ SummarizeStarts(arxivId)) =>
         /\ AnsweredFromCache(arxivId)
         /\ IoCount(lastResult.io, "GENERATE") = 1]_vars

(***************************************************************************)
(* C8, amended: when a summarizePaper call has returned a summary it       *)
(* generated and stored, and the next call for the same arxivId gets an    *)
(* answer from its cache lookup, that call returns cached = TRUE with the  *)
(* text the first one returned; the first call asked the generation        *)
(* service once and the second not at all.                                 *)
(***************************************************************************)
C8_SecondCallCachedAfterStoredSummary ==
  [][\A arxivId \in RawIds :
       (SummarizeStored(arxivId) /\ SummarizeStarts(arxivId) /\ LookupAnswered) =>
         /\ AnsweredFromCache(arxivId)
         /\ IoCount(lastResult.io, "GENERATE") = 1]_vars

\* a second call has been answered from the entry the first call wrote
C8_Witness ==
  /\ lastResult.op = "summarizePaper"
  /\ ~lastResult.threw
  /\ lastResult.result.cached
  /\ toolCalls = 2
  /\ \A slot \in Slots : Free(slot)
  /\ \E r \in paper_summaries :
       /\ r.arxiv_id = summaryKey(lastResult.arxivId)
       /\ r.summary_md = lastResult.result.summaryMd

(***************************************************************************)
(* C9: every paper_summaries entry is stored under the canonical id of the *)
(* paper followed by ":" and the prompt version, and a summarizePaper call *)
(* made after a call for another raw form of the same paper has stored its *)
(* summary is answered from the cache.                                     *)
(***************************************************************************)
C9_CacheKeyIsCanonical ==
  [][/\ \A r \in paper_summaries' :
          \E c \in CanonicalIds :
            r.arxiv_id = c \o <<":">> \o SUMMARY_PROMPT_VERSION
     /\ \A first \in RawIds, second \in RawIds :
          (/\ Normalize(first).canonical = Normalize(second).canonical
           /\ SummarizeStored(first)
           /\ SummarizeStarts(second)
           /\ LookupAnswered)
          => AnsweredFromCache(second)]_vars

(***************************************************************************)
(* C10: a paper_summaries entry, once written, keeps its summary_md and    *)
(* its created_at in every later state.                                    *)
(***************************************************************************)
C10_SummaryEntryNeverRewritten ==
  [][\A r \in paper_summaries : r \in paper_summaries']_vars

(***************************************************************************)
(* Vocabulary of the preview properties                                    *)
(***************************************************************************)
\* preview is the projection of the rows of table with the greatest
\* saved_at, at most PREVIEW_LIMIT of them, in saved_at-descending order
IsTopProjection(preview, table) ==
  /\ Len(preview) = IF Cardinality(table) > PREVIEW_LIMIT THEN PREVIEW_LIMIT
                    ELSE Cardinality(table)
  /\ \A i \in 1..Len(preview) :
       \E r \in table :
         preview[i] = [arxivId |-> r.arxiv_id, title |-> r.title,
                       savedAt |-> r.saved_at, tags |-> TagSeq(r)]
  /\ \A i \in 1..Len(preview), j \in 1..Len(preview) :
       /\ i < j => preview[i].savedAt >= preview[j].savedAt
       /\ i # j => preview[i].arxivId # preview[j].arxivId
  /\ \A r \in table :
       (\A i \in 1..Len(preview) : preview[i].arxivId # r.arxiv_id) =>
         \A i \in 1..Len(preview) : r.saved_at <= preview[i].savedAt

\* the execution that ended last is a savePaper or a removeSavedPaper that
\* returned success
MutationSucceeded ==
  /\ lastResult.op \in {"savePaper", "removeSavedPaper"}
  /\ ~lastResult.threw
  /\ "arxivId" \in DOMAIN lastResult.result
  /\ "error" \notin DOMAIN lastResult.result

PreviewIdsStored ==
  \A i \in 1..Len(state.libraryPreview) :
    state.libraryPreview[i].arxivId \in StoredIds(saved_papers)

(***************************************************************************)
(* C11, as stated: when the savePaper or approved removeSavedPaper that    *)
(* ended last returned success without a warning, libraryPreview is the    *)
(* projection of the at most 10 rows with the greatest saved_at in         *)
(* descending order; and in every state the preview holds no id that is    *)
(* not a stored row.                                                       *)
(***************************************************************************)
C11_PreviewNeverStale ==
  /\ (MutationSucceeded /\ "warning" \notin DOMAIN lastResult.result) =>
       IsTopProjection(state.libraryPreview, saved_papers)
  /\ PreviewIdsStored

(***************************************************************************)
(* C11, amended: when the savePaper or approved removeSavedPaper that      *)
(* ended last returned success without a warning, libraryPreview is the    *)
(* projection of the at most 10 rows with the greatest saved_at in         *)
(* descending order, and so holds stored ids only.                         *)
(***************************************************************************)
C11_PreviewMatchesAfterCleanSuccess ==
  (MutationSucceeded /\ "warning" \notin DOMAIN lastResult.result) =>
    /\ IsTopProjection(state.libraryPreview, saved_papers)
    /\ PreviewIdsStored

\* an eleventh paper has been saved: the preview shows it first and drops
\* the oldest stored row
C11_Witness ==
  /\ MutationSucceeded
  /\ lastResult.op = "savePaper"
  /\ "warning" \notin DOMAIN lastResult.result
  /\ Cardinality(saved_papers) = PREVIEW_LIMIT + 1
  /\ Len(state.libraryPreview) = PREVIEW_LIMIT
  /\ state.libraryPreview[1].arxivId = lastResult.result.arxivId
  /\ \E r \in saved_papers :
       \A i \in 1..Len(state.libraryPreview) :
         state.libraryPreview[i].arxivId # r.arxiv_id

(***************************************************************************)
(* C12: when the preview recompute of the savePaper (insert or tag merge)  *)
(* or removeSavedPaper that ended last failed, the operation returned its  *)
(* successful result with a warning and no error, and its mutation is      *)
(* stored: the saved row holds the returned tags, the removed row is gone. *)
(***************************************************************************)
C12_PreviewFailureIsWarning ==
  (/\ lastResult.op \in {"savePaper", "removeSavedPaper"}
   /\ IoAnswers(lastResult.io, "PREVIEW") = {FALSE}) =>
    /\ MutationSucceeded
    /\ "warning" \in DOMAIN lastResult.result
    /\ lastResult.op = "savePaper" =>
         \E r \in saved_papers :
           /\ r.arxiv_id = lastResult.result.arxivId
           /\ TagSeq(r) = lastResult.result.tags
           /\ r.saved_at = lastResult.result.savedAt
    /\ lastResult.op = "removeSavedPaper" =>
         /\ lastResult.result.success
         /\ lastResult.result.arxivId \notin StoredIds(saved_papers)

\* a removal went through while its preview recompute failed: the preview
\* still lists the removed paper
C12_Witness ==
  /\ lastResult.op = "removeSavedPaper"
  /\ IoAnswers(lastResult.io, "PREVIEW") = {FALSE}
  /\ "warning" \in DOMAIN lastResult.result
  /\ lastResult.result.arxivId \notin StoredIds(saved_papers)
  /\ \E i \in 1..Len(state.libraryPreview) :
       state.libraryPreview[i].arxivId = lastResult.result.arxivId

(***************************************************************************)
(* C13: when the write of the generated summary to paper_summaries failed  *)
(* in the summarizePaper call that ended last, the call did not throw and  *)
(* returned the text the generation service produced, with cached = FALSE  *)
(* and no error field.                                                     *)
(***************************************************************************)
C13_CacheWriteFailureSwallowed ==
  (/\ lastResult.op = "summarizePaper"
   /\ IoAnswers(lastResult.io, "INSERT") \cap SqlFaults # {}) =>
    /\ ~lastResult.threw
    /\ "error" \notin DOMAIN lastResult.result
    /\ ~lastResult.result.cached
    /\ IoAnswers(lastResult.io, "GENERATE")
         = {[text |-> lastResult.result.summaryMd]}
    /\ lastResult.result.summaryMd \in SummaryTexts

\* the summary was returned although nothing is stored under its key
C13_Witness ==
  /\ lastResult.op = "summarizePaper"
  /\ IoAnswers(lastResult.io, "INSERT") \cap SqlFaults # {}
  /\ lastResult.result.summaryMd \in SummaryTexts
  /\ SelectSummary(paper_summaries, summaryKey(lastResult.arxivId)) = {}

(***************************************************************************)
(* Listing the library                                                     *)
(***************************************************************************)
\* the call that ended last was a listing the storage engine answered
Listed ==
  /\ lastResult.op = "listSavedPapers"
  /\ ~lastResult.threw
  /\ "error" \notin DOMAIN lastResult.result

\* the limit of the call, the default when it gave none
AskedLimit ==
  IF "limit" \in DOMAIN lastResult.args THEN lastResult.args.limit
  ELSE DEFAULT_LIMIT

\* the stored rows that pass the filters of the call
MatchingRows == {r \in saved_papers : KeepsRow(r, lastResult.args)}

\* the stored row a returned item shows
RowOf(item) == {r \in saved_papers : rowToListPaper(r) = item}

\* C14: a listing with a limit of at most 100 (its default is 20) reports as
\* totalCount the number of stored rows that pass the filters, returns
\* min(limit, totalCount) distinct rows among them, in the order of saved_at
\* descending and such that no row left out was saved later than a returned
\* one, and sets wasTruncated exactly when totalCount > limit.
C14_ListOrderedLimitedCounted ==
  (Listed /\ AskedLimit <= MAX_LIMIT) =>
    LET papers == lastResult.result.papers
    IN /\ lastResult.result.totalCount = Cardinality(MatchingRows)
       /\ Len(papers) = Min(AskedLimit, lastResult.result.totalCount)
       /\ \A i \in 1..Len(papers) : RowOf(papers[i]) \cap MatchingRows # {}
       /\ \A i, j \in 1..Len(papers) :
            /\ i < j => papers[i].savedAt >= papers[j].savedAt
            /\ i # j => papers[i].arxivId # papers[j].arxivId
       /\ \A r \in MatchingRows :
            rowToListPaper(r) \notin Range(papers) =>
              \A i \in 1..Len(papers) : papers[i].savedAt >= r.saved_at
       /\ lastResult.result.wasTruncated <=>
            lastResult.result.totalCount > AskedLimit

\* a listing of three matching rows, two of them saved at the same time, cut
\* to two: the page is full, in order, and flagged as truncated
C14_Witness ==
  /\ Listed
  /\ AskedLimit = 2
  /\ lastResult.result.totalCount = 3
  /\ Len(lastResult.result.papers) = 2
  /\ lastResult.result.papers[1].savedAt > lastResult.result.papers[2].savedAt
  /\ lastResult.result.wasTruncated
  /\ "tag" \notin DOMAIN lastResult.args

\* two strings equal once the case of their letters is ignored
SameIgnoringCase(a, b) ==
  /\ Len(a) = Len(b)
  /\ \A k \in 1..Len(a) : ToLowerChar(a[k]) = ToLowerChar(b[k])

\* needle occurs in hay once the case of the letters is ignored
ContainsIgnoringCase(hay, needle) ==
  \E i \in 0..(Len(hay) - Len(needle)) :
     \A k \in 1..Len(needle) : ToLowerChar(hay[i + k]) = ToLowerChar(needle[k])

TagPredicate(row, tag) ==
  \E k \in 1..Len(TagSeq(row)) : SameIgnoringCase(TagSeq(row)[k], tag)

TextPredicate(row, text) ==
  ContainsIgnoringCase(row.title, text) \/ ContainsIgnoringCase(row.abstract, text)

\* the rows a listing has to return when a filter counts as soon as the call
\* carries it (every) or only when it carries a non-empty one
RowsSatisfying(every) ==
  {r \in saved_papers :
     /\ ("tag" \in DOMAIN lastResult.args
           /\ (every \/ lastResult.args.tag # <<>>))
          => TagPredicate(r, lastResult.args.tag)
     /\ ("filterText" \in DOMAIN lastResult.args
           /\ (every \/ lastResult.args.filterText # <<>>))
          => TextPredicate(r, lastResult.args.filterText)}

\* what a listing returned and counted is what rows says it should
ListingReturns(rows) ==
  /\ lastResult.result.totalCount = Cardinality(rows)
  /\ \A i \in 1..Len(lastResult.result.papers) :
       RowOf(lastResult.result.papers[i]) \cap rows # {}
  /\ ~lastResult.result.wasTruncated =>
       \A r \in rows : rowToListPaper(r) \in Range(lastResult.result.papers)

\* C15 as stated: a listing returns and counts a row exactly when the row
\* passes every filter the call supplies: some stored tag equals the tag
\* ignoring case, the text occurs in the title or the abstract ignoring case
C15_RowsPassEverySuppliedFilter == Listed => ListingReturns(RowsSatisfying(TRUE))

\* C15: a listing returns (up to its limit) and counts a row exactly when the
\* row passes every non-empty filter of the call: some stored tag equals the
\* tag ignoring case (not as a substring), the text occurs in the title or in
\* the abstract ignoring case, and both when both are given; an empty tag or
\* text filters nothing.
C15_RowsPassEveryNonEmptyFilter ==
  Listed => ListingReturns(RowsSatisfying(FALSE))

\* both filters given over the four rows: the two rows tagged ml/ML that
\* mention "an" are returned, the row tagged mlx and the untagged one are not
C15_Witness ==
  /\ Listed
  /\ Cardinality(saved_papers) = 4
  /\ "tag" \in DOMAIN lastResult.args /\ lastResult.args.tag = <<"m","l">>
  /\ "filterText" \in DOMAIN lastResult.args
  /\ lastResult.args.filterText = <<"A","N">>
  /\ lastResult.result.totalCount = 2
  /\ {lastResult.result.papers[i].title : i \in 1..Len(lastResult.result.papers)}
       \subseteq {<<"G","a","n">>, <<"N","e","t">>}

(***************************************************************************)
(* Failures of the Fetch Client                                            *)
(***************************************************************************)
\* what the Fetch Client answered to the execution that ended last
FetchAnswers == IoAnswers(lastResult.io, "FETCH")

FetchKinds == {f.kind : f \in FetchAnswers}

\* C16: when an execution of searchArxiv, summarizePaper or savePaper ends
\* after the Fetch Client answered with a network error, an HTTP error or
\* not-found, it returns (it does not throw) a result whose error field is a
\* non-empty message; when the fetch raised any other exception, the
\* execution throws it.
C16_FetchFailuresCapturedOthersRethrown ==
  lastResult.op \in {"searchArxiv", "summarizePaper", "savePaper"} =>
    /\ FetchKinds \cap {"ArxivNetworkError", "ArxivHttpError", "null"} # {} =>
         /\ ~lastResult.threw
         /\ "error" \in DOMAIN lastResult.result
         /\ lastResult.result.error # <<>>
    /\ "Error" \in FetchKinds => lastResult.threw

\* a search whose request was answered with HTTP 503 returned an error result
\* with no papers
C16_Witness ==
  /\ lastResult.op = "searchArxiv"
  /\ [kind |-> "ArxivHttpError", status |-> 503] \in FetchAnswers
  /\ ~lastResult.threw
  /\ "error" \in DOMAIN lastResult.result
  /\ lastResult.result.papers = <<>>

(***************************************************************************)
(* Identifiers that denote no paper                                        *)
(***************************************************************************)
\* C17 as stated: an execution of savePaper or removeSavedPaper whose input
\* normalizes to an empty or blank canonical id returns an error result
\* without having issued a statement on saved_papers or a request to the
\* Fetch Client.
C17_InvalidIdFailsBeforeStorageAndFetch ==
  (/\ lastResult.op \in {"savePaper", "removeSavedPaper"}
   /\ normalizeArxivId(lastResult.arxivId).canonical \in InvalidIds) =>
    /\ ~lastResult.threw
    /\ "error" \in DOMAIN lastResult.result
    /\ lastResult.io = <<>>

(***************************************************************************)
(* normalizeArxivId                                                        *)
(***************************************************************************)
\* C18: for every valid raw identifier x (an old-style or new-style id, with
\* or without a version, bare or in an abs or PDF URL), normalizing the
\* canonical id of x gives that canonical id again.
C18_NormalizeIdempotentOnCanonical ==
  [][(/\ lastResult.op = "normalizeArxivId"
      /\ lastResult'.op = "normalizeArxivId twice"
      /\ lastResult.arxivId \in ValidRawIds) =>
       lastResult'.result.canonical = lastResult.result.canonical]_vars

\* the canonical id of a versioned PDF URL of an old-style paper, normalized
\* a second time
C18_Witness ==
  /\ lastResult.op = "normalizeArxivId twice"
  /\ lastResult.arxivId = HTTPS \o ARXIV_PDF \o BARE2 \o <<"v","1","2">> \o DOT_PDF
  /\ lastResult.result.canonical = BARE2

\* s ends in the letter v followed by one or more digits
EndsInVersionSuffix(str) ==
  \E j \in 1..(Len(str) - 1) : str[j] = "v" /\ AllDigits(Drop(str, j))

\* C19 as stated: for every input string, the canonical id normalizeArxivId
\* returns does not end in a version suffix, and the result has the field
\* versioned exactly when it has the field version.
C19_CanonicalNeverVersioned ==
  lastResult.op = "normalizeArxivId" =>
    /\ ~EndsInVersionSuffix(lastResult.result.canonical)
    /\ "versioned" \in DOMAIN lastResult.result
         <=> "version" \in DOMAIN lastResult.result

\* C20: all the raw forms of one paper (its bare id, its abs URL over http or
\* https, its PDF URL with or without .pdf, each with or without a version)
\* normalize to the same canonical id.
C20_RawFormsShareCanonical ==
  lastResult.op = "normalizeArxivId" =>
    \A id \in PaperIds :
      lastResult.arxivId \in RawFormsOf(id) =>
        \A other \in RawFormsOf(id) :
          normalizeArxivId(other).canonical = lastResult.result.canonical

\* a versioned PDF URL ending in .pdf normalized to the bare id of its paper
C20_Witness ==
  /\ lastResult.op = "normalizeArxivId"
  /\ lastResult.arxivId = HTTP \o ARXIV_PDF \o BARE1 \o <<"v","2">> \o DOT_PDF
  /\ lastResult.result.canonical = BARE1
  /\ lastResult.result.version = 2

(***************************************************************************)
(* Parsing the feed                                                        *)
(***************************************************************************)
\* the entry has the element and the element has text
HasElement(entry, field) == field \in DOMAIN entry /\ entry[field] # <<>>

\* the entries of the parsed document that have id, title and published
WellFormedEntries ==
  IF lastResult.xml.kind # "feed" THEN <<>>
  ELSE SelectSeq(lastResult.xml.entries,
                 LAMBDA e : /\ HasElement(e, "id") /\ HasElement(e, "title")
                            /\ HasElement(e, "published"))

Parsed == lastResult.op = "parseArxivAtom"

\* C21: parseArxivAtom returns (it does not throw); for a feed it returns one
\* record per entry that has id, title and published, in the order of the
\* entries, whatever entries without one of the three stand between them;
\* for a feed without entries, a document without feed and a document the
\* XML parser rejects it returns the empty sequence.
C21_OneRecordPerWellFormedEntry ==
  Parsed =>
    /\ ~lastResult.threw
    /\ Len(lastResult.result.papers) = Len(WellFormedEntries)
    /\ \A i \in 1..Len(WellFormedEntries) :
         /\ lastResult.result.papers[i].arxivId =
              normalizeArxivId(WellFormedEntries[i].id).canonical
         /\ lastResult.result.papers[i].published = WellFormedEntries[i].published
    /\ lastResult.xml.kind # "feed" => lastResult.result.papers = <<>>

\* a feed of an entry without title followed by a complete entry: one record,
\* that of the complete entry
C21_Witness ==
  /\ Parsed
  /\ lastResult.xml.kind = "feed"
  /\ Len(lastResult.xml.entries) = 2
  /\ "title" \notin DOMAIN lastResult.xml.entries[1]
  /\ Len(lastResult.result.papers) = 1
  /\ lastResult.result.papers[1].arxivId = BARE1

\* C22 as stated: every record parseArxivAtom returns has a non-empty
\* arxivId, a non-empty title and a non-empty published value.
C22_MandatoryFieldsNonEmpty ==
  Parsed =>
    \A i \in 1..Len(lastResult.result.papers) :
      /\ lastResult.result.papers[i].arxivId # <<>>
      /\ lastResult.result.papers[i].title # <<>>
      /\ lastResult.result.papers[i].published # <<>>

\* the links of an entry that are typed as PDF, in document order
PdfLinks(entry) ==
  SelectSeq(ElementsOf(entry, "link"),
            LAMBDA l : "type" \in DOMAIN l /\ l.type = "application/pdf")

\* the alternate HTML-typed links of an entry that carry an href
AlternateLinks(entry) ==
  SelectSeq(ElementsOf(entry, "link"),
            LAMBDA l : /\ "rel" \in DOMAIN l /\ l.rel = "alternate"
                       /\ "type" \in DOMAIN l /\ l.type = "text/html"
                       /\ "href" \in DOMAIN l)

\* C23 as stated: the url of a record is the href of the alternate HTML-typed
\* link of its entry when there is one and the <id> of the entry otherwise;
\* its pdfUrl is the href of the first PDF-typed link of the entry, and the
\* record has no pdfUrl when the entry has no such link.
C23_LinksResolved ==
  Parsed =>
    \A i \in 1..Len(WellFormedEntries) :
      LET entry == WellFormedEntries[i]
          paper == lastResult.result.papers[i]
      IN /\ paper.url = IF Len(AlternateLinks(entry)) > 0
                        THEN AlternateLinks(entry)[1].href
                        ELSE entry.id
         /\ IF Len(PdfLinks(entry)) > 0 /\ "href" \in DOMAIN PdfLinks(entry)[1]
            THEN "pdfUrl" \in DOMAIN paper /\ paper.pdfUrl = PdfLinks(entry)[1].href
            ELSE "pdfUrl" \notin DOMAIN paper

(***************************************************************************)
(* The Fetch Client                                                        *)
(***************************************************************************)
ClientEnded == lastResult.op \in {"fetchArxivPapers", "fetchArxivPaperById"}

\* what the upstream answered to the call that ended last
UpstreamAnswers == IoAnswers(lastResult.io, "RESPONSE")

\* C24: a call of fetchArxivPapers or fetchArxivPaperById whose request failed
\* in transport throws an ArxivNetworkError; one that was answered with a
\* non-success status throws an ArxivHttpError that carries this status; so
\* neither returns, with an empty list, with not-found or otherwise, and the
\* two errors differ in kind.
C24_FailuresSignalledByKind ==
  ClientEnded =>
    \A response \in UpstreamAnswers :
      /\ response.kind = "rejected" =>
           /\ lastResult.threw
           /\ lastResult.result.error = [kind |-> "ArxivNetworkError"]
      /\ (response.kind = "response" /\ ~(response.status \in 200..299)) =>
           /\ lastResult.threw
           /\ lastResult.result.error =
                [kind |-> "ArxivHttpError", status |-> response.status]
      /\ ~lastResult.threw =>
           response.kind = "response" /\ response.status \in 200..299

\* a fetch by id answered with 404 threw an HTTP error carrying 404
C24_Witness ==
  /\ lastResult.op = "fetchArxivPaperById"
  /\ [kind |-> "response", status |-> 404] \in UpstreamAnswers
  /\ lastResult.threw
  /\ lastResult.result.error.status = 404

\* C25: fetchArxivPaperById requests id_list=<canonical id of its input>, the
\* id without version and outside any URL, and when the response is read it
\* returns the first record of the parsed feed, or null when the parsed feed
\* has no record.
C25_ByIdQueriesCanonicalReturnsFirst ==
  lastResult.op = "fetchArxivPaperById" =>
    /\ IoAnswers(lastResult.io, "REQUEST") =
         {[base |-> API_QUERY,
           id_list |-> normalizeArxivId(lastResult.arxivId).canonical]}
    /\ \A url \in IoAnswers(lastResult.io, "REQUEST") :
         url.id_list \in PaperIds
    /\ ~lastResult.threw =>
         \A response \in UpstreamAnswers :
           IF Len(parseArxivAtom(response.text)) > 0
           THEN lastResult.result = [paper |-> parseArxivAtom(response.text)[1]]
           ELSE lastResult.result = NoPaper

\* a versioned id was asked for by its canonical id and the first of the two
\* records of the feed was returned
C25_Witness ==
  /\ lastResult.op = "fetchArxivPaperById"
  /\ lastResult.arxivId = VERSIONED1
  /\ \E url \in IoAnswers(lastResult.io, "REQUEST") : url.id_list = BARE1
  /\ \E response \in UpstreamAnswers :
       /\ "text" \in DOMAIN response
       /\ response.text = [kind |-> "feed", entries |-> <<FullEntry, BareEntry>>]
  /\ lastResult.result.paper.arxivId = BARE1

(***************************************************************************)
(* Searching                                                               *)
(***************************************************************************)
\* a step in which an execution of searchArxiv returns the answer of a search
SearchReturns ==
  /\ lastResult' # lastResult
  /\ lastResult'.op = "searchArxiv"
  /\ ~lastResult'.threw
  /\ "error" \notin DOMAIN lastResult'.result

\* the paper was published no more than days days before the time ms
PublishedWithin(paper, days, ms) ==
  LET published == DateGetTime(paper.published)
      ahead     == published.day + days - (ms \div MS_PER_DAY)
  IN ahead > 0 \/ (ahead = 0 /\ published.ms >= ms % MS_PER_DAY)

\* C26: when an execution of searchArxiv returns what the Fetch Client gave
\* it, totalFetched is the number of fetched papers, papers are those of
\* them published at or after now minus recencyDays days, in the order they
\* were fetched, totalAfterFilter is their number (at most totalFetched),
\* and recencyDays is the argument of the call when it has one and the
\* preference otherwise.
C26_SearchCountsAndRecency ==
  [][SearchReturns =>
       \A fetched \in IoAnswers(lastResult'.io, "FETCH") :
         LET days == IF "recencyDays" \in DOMAIN lastResult'.args
                     THEN lastResult'.args.recencyDays
                     ELSE state.preferences.recencyDays
         IN /\ lastResult'.result.recencyDays = days
            /\ lastResult'.result.totalFetched = Len(fetched.papers)
            /\ lastResult'.result.papers =
                 SelectSeq(fetched.papers,
                           LAMBDA paper : PublishedWithin(paper, days, now))
            /\ lastResult'.result.totalAfterFilter =
                 Len(lastResult'.result.papers)
            /\ lastResult'.result.totalAfterFilter
                 <= lastResult'.result.totalFetched]_vars

\* a search over one day fetched a paper published exactly one day ago and an
\* old one, and kept the first
C26_Witness ==
  /\ lastResult.op = "searchArxiv"
  /\ ~lastResult.threw
  /\ "recencyDays" \in DOMAIN lastResult.args
  /\ lastResult.result.recencyDays = 1
  /\ lastResult.result.totalFetched = 2
  /\ lastResult.result.totalAfterFilter = 1
  /\ lastResult.result.papers = <<PAPER1_V2>>

(***************************************************************************)
(* No retries                                                              *)
(***************************************************************************)
\* C27: a call of fetchArxivPapers or fetchArxivPaperById that ended, with a
\* value or with an error, issued exactly one upstream request, and one in
\* flight has issued one; an execution of searchArxiv, summarizePaper or
\* savePaper called the Fetch Client at most once.
C27_NoRetries ==
  /\ ClientEnded => IoCount(lastResult.io, "REQUEST") = 1
  /\ \A slot \in Slots :
       calls[slot].pc = "requesting" => IoCount(calls[slot].io, "REQUEST") = 1
  /\ lastResult.op \in {"searchArxiv", "summarizePaper", "savePaper"} =>
       IoCount(lastResult.io, "FETCH") <= 1

\* a search request that failed in transport was the only one of its call
C27_Witness ==
  /\ lastResult.op = "fetchArxivPapers"
  /\ lastResult.threw
  /\ [kind |-> "rejected"] \in UpstreamAnswers
  /\ IoCount(lastResult.io, "REQUEST") = 1

(***************************************************************************)
(* Stored tags                                                             *)
(***************************************************************************)
\* C28: the tag list stored in every row of saved_papers holds no tag twice,
\* whatever tag lists savePaper was called with.
C28_StoredTagsFormSet ==
  \A row \in saved_papers :
    \A i, j \in 1..Len(TagSeq(row)) :
      i # j => TagSeq(row)[i] # TagSeq(row)[j]

(***************************************************************************)
(* A failed title lookup of removeSavedPaper                               *)
(***************************************************************************)
\* an approved removal is executed in this step
RemoveRuns == removeReq.state = "Approved" /\ removeReq'.state = "Executed"

\* the execution ended at its title lookup, which the storage layer failed
LookupFailed(io) ==
  /\ Len(io) = 1
  /\ io[1][1] = "SELECT"
  /\ io[1][2] # NoFault

NotFoundInLibrary(result) ==
  /\ "error" \in DOMAIN result
  /\ result.error = <<"Paper with arXiv ID '", result.arxivId,
                      "' not found in library.">>

LookupDatabaseError == <<"Database error while looking up paper. Please try again.">>

\* C29: when the title lookup of an executed removal fails with a database
\* error ("database is locked"), the execution returns, without throwing,
\* success = FALSE and the database error message, which is not the "not
\* found in library" result; when the lookup fails, and when the paper is
\* not found, no row is deleted, no DELETE is issued and the preview is not
\* recomputed.
C29_LookupFailureIsDatabaseError ==
  [][RemoveRuns =>
       /\ lastResult'.io = <<<<"SELECT", MSG_LOCKED>>>> =>
            /\ ~lastResult'.threw
            /\ lastResult'.result.success = FALSE
            /\ lastResult'.result.error = LookupDatabaseError
            /\ ~NotFoundInLibrary(lastResult'.result)
       /\ (\/ LookupFailed(lastResult'.io)
           \/ (~lastResult'.threw /\ NotFoundInLibrary(lastResult'.result))) =>
            /\ saved_papers' = saved_papers
            /\ state' = state
            /\ IoCount(lastResult'.io, "DELETE") = 0
            /\ IoCount(lastResult'.io, "PREVIEW") = 0]_vars

\* the lookup of a stored paper failed: the database error is returned and
\* the paper is still stored
C29_Witness ==
  /\ lastResult.op = "removeSavedPaper"
  /\ lastResult.io = <<<<"SELECT", MSG_LOCKED>>>>
  /\ ~lastResult.threw
  /\ lastResult.result.error = LookupDatabaseError
  /\ removeReq.state = "Executed"
  /\ lastResult.result.arxivId \in StoredIds(saved_papers)

(***************************************************************************)
(* A changed prompt version                                                *)
(***************************************************************************)
\* a summarizePaper call starts in this step
SummarizeBegins == toolCalls' = toolCalls + 1

\* the call that ended last was answered from the cache
CachedAnswer(result) == "cached" \in DOMAIN result /\ result.cached

\* C30: with summaries stored under earlier prompt versions for every id, a
\* summarizePaper call made while no summary of the current version is
\* stored misses the cache and goes on to fetch and generate; no call is
\* ever answered with a summary of an earlier version; and every entry of
\* an earlier version stays stored, under its key and unchanged, though
\* nothing purges it.
C30_VersionChangeInvalidates ==
  [][/\ PriorSummaries \subseteq paper_summaries'
     /\ (SummarizeBegins /\ paper_summaries = PriorSummaries) =>
          /\ calls'[FetchSlot].pc = "fetching"
          /\ lastResult' = lastResult
     /\ (lastResult'.op = "summarizePaper" /\ ~lastResult'.threw
         /\ CachedAnswer(lastResult'.result)) =>
          lastResult'.result.summaryMd \in SummaryTexts]_vars

\* a summary was generated and stored beside the entries of the earlier
\* versions of the same id
C30_Witness ==
  /\ lastResult.op = "summarizePaper"
  /\ ~lastResult.threw
  /\ "error" \notin DOMAIN lastResult.result
  /\ ~lastResult.result.cached
  /\ IoCount(lastResult.io, "GENERATE") = 1
  /\ PriorSummaries \subseteq paper_summaries
  /\ \E r \in paper_summaries : r.arxiv_id = summaryKey(lastResult.arxivId)

(***************************************************************************)
(* The preferences                                                         *)
(***************************************************************************)
\* C31: no step of any tool, of the approval flow or of onStart changes
\* state.preferences; a preview recompute replaces libraryPreview only.
C31_PreferencesNeverChange ==
  [][state'.preferences = state.preferences]_vars

\* a paper was saved in a session with preferences of the user's own: the
\* preview was recomputed and the preferences are still those
C31_Witness ==
  /\ state.preferences = CustomPreferences
  /\ lastResult.op = "savePaper"
  /\ IoAnswers(lastResult.io, "PREVIEW") = {TRUE}
  /\ Len(state.libraryPreview) = PREVIEW_LIMIT
  /\ state.libraryPreview[1].arxivId = BARE1

(***************************************************************************)
(* Removing a paper that is not stored                                     *)
(***************************************************************************)
\* C32: when an approved removal is executed for an id whose canonical form
\* has no row, and the title lookup is answered, the execution returns
\* success = FALSE with the error "Paper with arXiv ID '<canonical id>' not
\* found in library." and arxivId the canonical id, and saved_papers and the
\* agent state (libraryPreview included) are unchanged.
C32_RemoveOfUnstoredIsNotFound ==
  [][(/\ RemoveRuns
      /\ SelectSavedPaper(saved_papers,
                          Normalize(removeReq.arxivId).canonical) = {}
      /\ lastResult'.io[1] = <<"SELECT", NoFault>>) =>
       /\ ~lastResult'.threw
       /\ lastResult'.result.success = FALSE
       /\ lastResult'.result.arxivId = Normalize(removeReq.arxivId).canonical
       /\ lastResult'.result.error =
            <<"Paper with arXiv ID '", Normalize(removeReq.arxivId).canonical,
              "' not found in library.">>
       /\ lastResult'.io = <<<<"SELECT", NoFault>>>>
       /\ saved_papers' = saved_papers
       /\ state' = state]_vars

\* the removal of a paper given by its PDF URL, not stored while another
\* paper is, was answered with the canonical id
C32_Witness ==
  /\ lastResult.op = "removeSavedPaper"
  /\ removeReq.state = "Executed"
  /\ lastResult.arxivId = PDFURL1
  /\ ~lastResult.threw
  /\ NotFoundInLibrary(lastResult.result)
  /\ lastResult.result.arxivId = BARE1
  /\ saved_papers # {}
  /\ Len(state.libraryPreview) > 0

(***************************************************************************)
(* A session restart                                                       *)
(***************************************************************************)
\* onStart runs in this step
Starts == ~started /\ started'

\* C33, as stated: onStart leaves every row of saved_papers and of
\* paper_summaries as it was, and after it libraryPreview is the projection
\* of the at most 10 rows with the greatest saved_at, in descending order.
C33_RestartKeepsRowsAndLoadsPreview ==
  [][Starts =>
       /\ saved_papers' = saved_papers
       /\ paper_summaries' = paper_summaries
       /\ IsTopProjection(state'.libraryPreview, saved_papers')]_vars

\* C33, amended: onStart leaves every row of saved_papers and of
\* paper_summaries as it was; after it libraryPreview is the projection of
\* the at most 10 rows with the greatest saved_at, in descending order,
\* unless the query that loads it failed, in which case the agent state is
\* what it was before.
C33_RestartKeepsRowsAndLoadsPreviewIfRead ==
  [][Starts =>
       /\ saved_papers' = saved_papers
       /\ paper_summaries' = paper_summaries
       /\ \/ IsTopProjection(state'.libraryPreview, saved_papers')
          \/ state' = state]_vars

\* an agent restarted over eleven rows and stored summaries, its preview
\* behind: the preview now shows the ten latest rows
C33_Witness ==
  /\ started
  /\ toolCalls = 0
  /\ Cardinality(saved_papers) = PREVIEW_LIMIT + 1
  /\ paper_summaries = PriorSummaries
  /\ Len(state.libraryPreview) = PREVIEW_LIMIT
  /\ state.libraryPreview[1].arxivId = BARE2
  /\ IsTopProjection(state.libraryPreview, saved_papers)

(***************************************************************************)
(* The tools that only read the library                                    *)
(***************************************************************************)
ReadingTools == {"searchArxiv", "summarizePaper"}

\* a step of an execution of searchArxiv, summarizePaper or listSavedPapers
ReadingToolStep ==
  \/ /\ calls' # calls
     /\ \/ calls[FetchSlot].op \in ReadingTools
        \/ calls'[FetchSlot].op \in ReadingTools
  \/ /\ toolCalls' = toolCalls + 1
     /\ calls' = calls
     /\ removeReq' = removeReq
     /\ lastResult'.op \in {"listSavedPapers", "summarizePaper"}

SummarizeStep ==
  \/ /\ calls' # calls
     /\ \/ calls[FetchSlot].op = "summarizePaper"
        \/ calls'[FetchSlot].op = "summarizePaper"
  \/ (calls' = calls /\ lastResult'.op = "summarizePaper")

\* C34: no step of searchArxiv, listSavedPapers or summarizePaper changes
\* saved_papers or libraryPreview, and no step of searchArxiv or
\* listSavedPapers changes paper_summaries.
C34_ReadingToolsLeaveLibrary ==
  [][ReadingToolStep =>
       /\ saved_papers' = saved_papers
       /\ state'.libraryPreview = state.libraryPreview
       /\ ~SummarizeStep => paper_summaries' = paper_summaries]_vars

\* a summary was generated and cached over a stored library whose preview
\* had not been loaded: the library and the preview are as they were
C34_Witness ==
  /\ lastResult.op = "summarizePaper"
  /\ IoCount(lastResult.io, "GENERATE") = 1
  /\ paper_summaries # {}
  /\ saved_papers = StoredLibrary
  /\ state.libraryPreview = <<>>
  /\ started

(***************************************************************************)
(* Failed summaries                                                        *)
(***************************************************************************)
\* an execution of summarizePaper ends in this step with an error result
SummarizeEndsInError ==
  /\ \E slot \in Slots :
       /\ calls[slot].op = "summarizePaper"
       /\ calls[slot].pc # "idle"
       /\ calls'[slot].pc = "idle"
  /\ ~lastResult'.threw
  /\ "error" \in DOMAIN lastResult'.result

\* a call of summarizePaper is answered from the cache in this step
SummarizeAnsweredFromCache ==
  /\ toolCalls' = toolCalls + 1
  /\ calls' = calls
  /\ lastResult'.op = "summarizePaper"

\* C35: an execution of summarizePaper that ends with an error result (the
\* fetch failed, the paper was not found, the generation failed) issues no
\* INSERT and leaves paper_summaries as it was; every entry holds a text the
\* generation service produced, never the empty summary of an error result;
\* and a call is answered from the cache only with the text of an entry, so
\* that a call after a failed one fetches and generates again.
C35_FailedSummaryNotCached ==
  [][/\ SummarizeEndsInError =>
          /\ paper_summaries' = paper_summaries
          /\ IoCount(lastResult'.io, "INSERT") = 0
          /\ lastResult'.result.summaryMd = ""
     /\ \A r \in paper_summaries' : r.summary_md \in SummaryTexts
     /\ SummarizeAnsweredFromCache =>
          \E r \in paper_summaries :
            /\ r.arxiv_id = summaryKey(lastResult'.arxivId)
            /\ r.summary_md = lastResult'.result.summaryMd]_vars

\* the second of two calls attempted the generation again, which failed:
\* nothing is cached
C35_Witness ==
  /\ lastResult.op = "summarizePaper"
  /\ toolCalls = 2
  /\ \A slot \in Slots : Free(slot)
  /\ "error" \in DOMAIN lastResult.result
  /\ IoAnswers(lastResult.io, "GENERATE") = {[threw |-> TRUE]}
  /\ paper_summaries = {}

(***************************************************************************)
(* Saving a stored paper again                                             *)
(***************************************************************************)
\* a call of savePaper starts in this step
SaveBegins == toolCalls' = toolCalls + 1 /\ removeReq' = removeReq

\* C36: a savePaper call awaits the fetch only when its id is not stored; a
\* call for a stored id ends in the step it starts in, so that no step of
\* another execution falls between its existence check and its UPDATE, and
\* it issues no fetch; when its SELECT and UPDATE are answered it returns
\* success with wasAlreadySaved = TRUE and the row holds the returned tags.
C36_MergeMakesNoFetchAndIsAtomic ==
  [][SaveBegins =>
       /\ \A slot \in Slots :
            calls'[slot] # calls[slot] =>
              SelectSavedPaper(saved_papers, calls'[slot].canonicalId) = {}
       /\ (/\ calls' = calls
           /\ SelectSavedPaper(saved_papers,
                               Normalize(lastResult'.arxivId).canonical) # {}) =>
            /\ lastResult'.op = "savePaper"
            /\ IoCount(lastResult'.io, "FETCH") = 0
            /\ (/\ IoAnswers(lastResult'.io, "SELECT") = {NoFault}
                /\ IoAnswers(lastResult'.io, "UPDATE") = {NoFault}) =>
                 /\ ~lastResult'.threw
                 /\ "error" \notin DOMAIN lastResult'.result
                 /\ lastResult'.result.wasAlreadySaved
                 /\ \E r \in saved_papers' :
                      /\ r.arxiv_id = lastResult'.result.arxivId
                      /\ TagSeq(r) = lastResult'.result.tags]_vars

\* a stored paper was saved again, by its PDF URL, and the merge returned
\* while another execution was still waiting for the network
C36_Witness ==
  /\ lastResult.op = "savePaper"
  /\ lastResult.arxivId = PDFURL1
  /\ ~lastResult.threw
  /\ "error" \notin DOMAIN lastResult.result
  /\ lastResult.result.wasAlreadySaved
  /\ IoCount(lastResult.io, "FETCH") = 0
  /\ \E slot \in Slots : calls[slot].pc = "fetching"

(***************************************************************************)
(* Save, then remove                                                       *)
(***************************************************************************)
\* every statement the execution issued was answered
AllAnswered(io) ==
  \A i \in 1..Len(io) :
    IF io[i][1] = "PREVIEW" THEN io[i][2] ELSE io[i][2] = NoFault

\* the one paper saved since the start is stored beside the stored library,
\* and an approved removal of it, by any raw form, is executed in this step
RemovesTheSavedPaper ==
  /\ RemoveRuns
  /\ toolCalls = 2
  /\ \E r \in saved_papers :
       /\ r.arxiv_id = Normalize(removeReq.arxivId).canonical
       /\ saved_papers \ {r} = StoredLibrary
  /\ AllAnswered(lastResult'.io)

\* C37: when the paper saved since the start, given by one raw form, is
\* removed by an approved removal given by any raw form of it, and every
\* statement of the removal is answered, the removal returns success and
\* saved_papers and libraryPreview are again what they were before the save.
C37_SaveThenRemoveRestores ==
  [][RemovesTheSavedPaper =>
       /\ ~lastResult'.threw
       /\ lastResult'.result.success
       /\ saved_papers' = StoredLibrary
       /\ state'.libraryPreview = StoredPreview]_vars

(***************************************************************************)
(* lib/storage.ts: localStorage, then sessionStorage, then a map           *)
(***************************************************************************)
StorageKeys == {"theme", "user-id"}

StorageValues == {"dark", "light"}

DefaultValues == {"default"}

\* how a browser storage answers: "available" answers every call; "full"
\* throws QuotaExceededError from setItem and answers getItem and
\* removeItem; "denied" throws SecurityError from every call
BackendModes == {"available", "full", "denied"}

\* the items of one storage: the value of each key, Absent for no item
ItemMaps == [StorageKeys -> StorageValues \cup {Absent}]

Backends == [mode : BackendModes, items : ItemMaps]

Storages ==
  [localStorage : Backends, sessionStorage : Backends, memoryStorage : ItemMaps]

\* getItem(key) returns, with the value or null
GetItemReturns(backend) == backend.mode # "denied"

\* setItem(key, value) returns
SetItemReturns(backend) == backend.mode = "available"

\* removeItem(key) returns
RemoveItemReturns(backend) == backend.mode # "denied"

WithItem(backend, key, value) == [backend EXCEPT !.items[key] = value]

\* safeGetItem(key, defaultValue): the first storage that answers with an item
safeGetItem(storage, key, defaultValue) ==
  IF /\ GetItemReturns(storage.localStorage)
     /\ storage.localStorage.items[key] # Absent
    THEN [value |-> storage.localStorage.items[key], type |-> "persistent"]
  ELSE IF /\ GetItemReturns(storage.sessionStorage)
          /\ storage.sessionStorage.items[key] # Absent
    THEN [value |-> storage.sessionStorage.items[key], type |-> "session"]
  ELSE IF storage.memoryStorage[key] # Absent
    THEN [value |-> storage.memoryStorage[key], type |-> "memory"]
  ELSE [value |-> defaultValue, type |-> "memory"]

\* safeSetItem(key, value): the first storage whose setItem returns
safeSetItem(storage, key, value) ==
  IF SetItemReturns(storage.localStorage)
    THEN [storage |-> [storage EXCEPT !.localStorage = WithItem(@, key, value)],
          type |-> "persistent"]
  ELSE IF SetItemReturns(storage.sessionStorage)
    THEN [storage |-> [storage EXCEPT !.sessionStorage = WithItem(@, key, value)],
          type |-> "session"]
  ELSE [storage |-> [storage EXCEPT !.memoryStorage[key] = value],
        type |-> "memory"]

\* safeRemoveItem(key): removeItem on both storages, each failure swallowed,
\* then memoryStorage.delete(key)
safeRemoveItem(storage, key) ==
  [localStorage   |-> IF RemoveItemReturns(storage.localStorage)
                        THEN WithItem(storage.localStorage, key, Absent)
                        ELSE storage.localStorage,
   sessionStorage |-> IF RemoveItemReturns(storage.sessionStorage)
                        THEN WithItem(storage.sessionStorage, key, Absent)
                        ELSE storage.sessionStorage,
   memoryStorage  |-> [storage.memoryStorage EXCEPT ![key] = Absent]]

\* the storages, and the call made last with its arguments and what it returned
StorageCall(storage, op, key, value, result) ==
  [storage |-> storage, key |-> key, value |-> value] @@
  Returned(op, <<>>, "done", result, <<>>)

InitStorage ==
  /\ started = FALSE
  /\ saved_papers = {}
  /\ paper_summaries = {}
  /\ state = initialState
  /\ calls = [slot \in Slots |-> IdleCall]
  /\ removeReq = NoRequest
  /\ \E storage \in Storages :
       lastResult = StorageCall(storage, "none", "", "", NoResult)
  /\ now = 0
  /\ toolCalls = 0
  /\ saveHistory = [c \in CanonicalIds |-> [count |-> 0, tags |-> {}]]

SafeSetItemCall ==
  /\ \E key \in StorageKeys, value \in StorageValues :
       LET set == safeSetItem(lastResult.storage, key, value)
       IN  lastResult' = StorageCall(set.storage, "safeSetItem", key, value,
                                     [type |-> set.type])
  /\ UNCHANGED <<started, saved_papers, paper_summaries, state, calls,
                 removeReq, now, toolCalls, saveHistory>>

SafeGetItemCall ==
  /\ \E key \in StorageKeys, defaultValue \in DefaultValues :
       lastResult' = StorageCall(lastResult.storage, "safeGetItem", key,
                                 defaultValue,
                                 safeGetItem(lastResult.storage, key, defaultValue))
  /\ UNCHANGED <<started, saved_papers, paper_summaries, state, calls,
                 removeReq, now, toolCalls, saveHistory>>

SafeRemoveItemCall ==
  /\ \E key \in StorageKeys :
       lastResult' = StorageCall(safeRemoveItem(lastResult.storage, key),
                                 "safeRemoveItem", key, "", NoResult)
  /\ UNCHANGED <<started, saved_papers, paper_summaries, state, calls,
                 removeReq, now, toolCalls, saveHistory>>

NextStorage == SafeSetItemCall \/ SafeGetItemCall \/ SafeRemoveItemCall

SpecStorage == InitStorage /\ [][NextStorage]_vars

(***************************************************************************)
(* Set, then get; remove, then get                                         *)
(***************************************************************************)
\* safeGetItem(key, d) is called right after safeSetItem(key, v)
GetAfterSet ==
  /\ lastResult.op = "safeSetItem"
  /\ lastResult'.op = "safeGetItem"
  /\ lastResult'.key = lastResult.key

\* safeGetItem(key, d) is called right after safeRemoveItem(key)
GetAfterRemove ==
  /\ lastResult.op = "safeRemoveItem"
  /\ lastResult'.op = "safeGetItem"
  /\ lastResult'.key = lastResult.key

\* safeGetItem(key, d) right after safeRemoveItem(key) returns the default d
GetAfterRemoveReturnsDefault ==
  [][GetAfterRemove => lastResult'.result.value = lastResult'.value]_vars

\* safeGetItem(key, d) right after safeSetItem(key, v) returns v when no
\* storage that is read before the one written holds an item of the key
GetAfterSetReturnsValueUnlessShadowed ==
  [][(/\ GetAfterSet
      /\ lastResult.result.type # "persistent"
           => ~(/\ GetItemReturns(lastResult.storage.localStorage)
                /\ lastResult.storage.localStorage.items[lastResult.key] # Absent)
      /\ lastResult.result.type = "memory"
           => ~(/\ GetItemReturns(lastResult.storage.sessionStorage)
                /\ lastResult.storage.sessionStorage.items[lastResult.key] # Absent))
       => lastResult'.result.value = lastResult.value]_vars

\* C38: whichever storages answer reads and writes and whatever they hold,
\* safeGetItem(key, d) called right after safeSetItem(key, v) returns v, and
\* safeGetItem(key, d) called right after safeRemoveItem(key) returns d.
C38_GetAfterSetAndGetAfterRemove ==
  [][/\ GetAfterSet => lastResult'.result.value = lastResult.value
     /\ GetAfterRemove => lastResult'.result.value = lastResult'.value]_vars

====
